---- MODULE Spec2Model ----
(***************************************************************************)
(* Model of the ADS-B log analyser (ver1/prog1.py and ver2/main.py with    *)
(* ver2/decoder.py): the per-file ingestion loop, the per-aircraft         *)
(* correlation state (CPR pair buffer, baro buffer, series, mode set,      *)
(* label set, watermark), the ADS-B capability filter and the hand-off to  *)
(* the presentation layer.                                                 *)
(*                                                                         *)
(* The bit-level decoder (pyModeS) is an external library.  A hex payload  *)
(* is represented by the tuple of results the library gives for it, so a   *)
(* payload is a record of decoder results and every wrapper of decoder.py  *)
(* is an operator over that record.  Timestamps are whole seconds.         *)
(***************************************************************************)
EXTENDS Integers, Sequences, FiniteSets, TLC

(* ------------------------------------------------------------------ *)
(* Bounds of the model                                                 *)
(* ------------------------------------------------------------------ *)
MaxLines == 2
MaxFiles == 2
MaxStamps == 5
MaxTokens == 4
MaxAircraft == 3

(* ------------------------------------------------------------------ *)
(* Optional values: Python's None and "the call raised"                *)
(* ------------------------------------------------------------------ *)
None == <<>>
Fails == <<>>
Some(v) == <<v>>
IsSome(o) == o # <<>>
Val(o) == o[1]
Abs(x) == IF x < 0 THEN -x ELSE x

(* ------------------------------------------------------------------ *)
(* Program constants                                                   *)
(* ------------------------------------------------------------------ *)
CPR_WINDOW == 10
BARO_WINDOW == 5
ALT_MIN == -2000
ALT_MAX == 60000
SEL_ALT_MIN == -2000
SEL_ALT_MAX == 50000
ALT_DIFF_MIN == -2500
ALT_DIFF_MAX == 2500
BARO_MIN == 800
BARO_MAX == 1100

MODE_MAP(c) ==
    CASE c = "U" -> "AP"
      [] c = "/" -> "ALT"
      [] c = "M" -> "VNAV"
      [] c = "F" -> "LNAV"
      [] c = "P" -> "APP"
      [] c = "T" -> "TCAS"
      [] c = "C" -> "HDG"
      [] OTHER -> c

(* ------------------------------------------------------------------ *)
(* Input alphabet                                                      *)
(* ------------------------------------------------------------------ *)
Icaos == {"4840D6", "A1B2C3"}
\* the addresses in ascending string order, as sorted() puts them
SortedIcaos == <<"4840D6", "A1B2C3">>
Versions == {1, 2}

\* characters c with c.isalnum()
AlnumChars == {"K", "L", "S", "U", "1"}

\* A payload: what the decoder library returns for one hex string.
\*   df      pms.df
\*   nhex    len(message_str)
\*   tc      pms.adsb.typecode            (Fails: the call raises)
\*   alt     pms.adsb.altitude / pms.common.altcode   (None: None or raises)
\*   sq      pms.common.idcode            (a string of digits)
\*   oe      pms.adsb.oe_flag             (Fails: the call raises)
\*   gs, course   pms.adsb.velocity()[0], [1]
\*   diff    pms.adsb.altitude_diff
\*   cs      pms.adsb.callsign            (a string)
\*   sel     pms.adsb.selected_altitude   (<<altitude, mode characters>>)
\*   baro    pms.adsb.baro_pressure_setting
Blank ==
    [df |-> 0, nhex |-> 14, tc |-> Fails, alt |-> None, sq |-> None,
     oe |-> Fails, gs |-> None, course |-> None, diff |-> None,
     cs |-> None, sel |-> None, baro |-> None]

Legacy(alt) == [Blank EXCEPT !.df = 4, !.alt = alt]
Squawk(sq) == [Blank EXCEPT !.df = 5, !.sq = sq]
Acquisition == [Blank EXCEPT !.df = 11]
Position(alt, oe) ==
    [Blank EXCEPT !.df = 17, !.nhex = 28, !.tc = Some(11), !.alt = alt, !.oe = oe]
Velocity(gs, course, diff) ==
    [Blank EXCEPT !.df = 17, !.nhex = 28, !.tc = Some(19),
                  !.gs = gs, !.course = course, !.diff = diff]
Ident(cs) == [Blank EXCEPT !.df = 17, !.nhex = 28, !.tc = Some(4), !.cs = cs]
TargetState(sel, baro) ==
    [Blank EXCEPT !.df = 17, !.nhex = 28, !.tc = Some(29), !.sel = sel, !.baro = baro]
OtherAdsb(df, tc) == [Blank EXCEPT !.df = df, !.nhex = 28, !.tc = tc]
UnknownFormat(nhex) == [Blank EXCEPT !.df = 22, !.nhex = nhex]

\* A framed line whose address and format were extracted.
LinesOf(times, icaos, payloads) == [t : times, aa : icaos, msg : payloads]

\* The logs the model reads.  A log is described by the set of lines that
\* may occur in it; each set exercises one part of the correlation engine.
CprFeed ==
    LinesOf({100, 104, 110}, Icaos,
            {Position(Some(35000), Some(0)), Position(Some(35000), Some(1)),
             Position(Some(35000), Fails)})

FusionFeed ==
    LinesOf({100, 104, 105, 106}, Icaos,
            {Legacy(Some(35000)), Velocity(Some(450), Some(90), Some(50)),
             Velocity(None, None, None)})

IdentFeed ==
    LinesOf({100, 104}, Icaos,
            {Ident(None), Ident(Some(<<"_", "_">>)),
             Ident(Some(<<"K", "L", "_", "1">>)), Ident(Some(<<"S", "U">>))})

SquawkFeed ==
    LinesOf({100, 104}, Icaos,
            {Squawk(None), Squawk(Some(<<>>)), Squawk(Some(<<7, 0, 0, 0>>)),
             Squawk(Some(<<1, 2, 0, 0>>)), Squawk(Some(<<9, 9, 9, 9>>))})

WatermarkFeed ==
    LinesOf({100, 104, 110}, Icaos,
            {Acquisition, UnknownFormat(14), OtherAdsb(17, Fails)})

PlausibilityFeed ==
    LinesOf({100}, Icaos,
            {Legacy(Some(-2001)), Legacy(Some(-2000)), Legacy(Some(60001)),
             Position(Some(60000), Some(0)), Position(Some(60001), Some(1)),
             Velocity(Some(450), None, Some(2500)),
             Velocity(None, Some(90), Some(2501)),
             Velocity(None, None, Some(-2501)),
             TargetState(Some(<<50000, {"U", "M"}>>), Some(1100)),
             TargetState(Some(<<50001, {"U"}>>), Some(1101)),
             TargetState(Some(<<-2001, {"/", "X"}>>), Some(799)),
             TargetState(None, Some(800))})

ErrorFeed ==
    LinesOf({100, 104}, Icaos,
            {OtherAdsb(17, Fails), Position(Some(35000), Fails),
             Position(Some(35000), Some(0)), Position(Some(35000), Some(1))})

FilterFeed ==
    LinesOf({100}, Icaos,
            {Legacy(Some(35000)), Squawk(Some(<<7, 0, 0, 0>>)),
             [Legacy(Some(35000)) EXCEPT !.df = 20, !.nhex = 28],
             OtherAdsb(17, Some(31)), OtherAdsb(18, Some(28)), UnknownFormat(28)})

ModeFeed ==
    LinesOf({100, 104}, Icaos,
            {TargetState(Some(<<30000, {"U", "M"}>>), None),
             TargetState(Some(<<30000, {"/", "X"}>>), None),
             TargetState(Some(<<30000, {}>>), None),
             TargetState(Some(<<50001, {"T"}>>), None),
             TargetState(None, Some(1013))})

ReplayFeed ==
    LinesOf({100}, Icaos,
            {Legacy(Some(35000)), Position(Some(35000), Some(0)),
             Ident(Some(<<"K", "L", "_", "1">>)),
             TargetState(Some(<<30000, {"U"}>>), Some(1013))})

IsolationFeed ==
    LinesOf({100, 104}, Icaos,
            {Legacy(Some(35000)), Velocity(Some(450), Some(90), Some(50)),
             Position(Some(35000), Some(0)), Position(Some(35000), Some(1))})

\* Short logs of position frames, read one line further than the others.
PairFeed ==
    LinesOf({100}, Icaos,
            {Position(Some(35000), Some(0)), Position(Some(35000), Some(1)),
             Legacy(Some(35000))})

\* Logs with one message of every timing category, and messages of none.
CategoryFeed ==
    LinesOf({100}, Icaos,
            {Acquisition, Legacy(Some(35000)), Position(Some(35000), Some(0)),
             OtherAdsb(17, Some(20)), OtherAdsb(17, Some(6)), Ident(None),
             Velocity(None, None, None), OtherAdsb(17, Some(28)),
             TargetState(None, None), OtherAdsb(18, Some(31)),
             OtherAdsb(17, Some(23))})

Feeds ==
    {CprFeed, FusionFeed, IdentFeed, SquawkFeed, WatermarkFeed,
     PlausibilityFeed, ErrorFeed, FilterFeed, ModeFeed, ReplayFeed,
     IsolationFeed, PairFeed, CategoryFeed}

(* ------------------------------------------------------------------ *)
(* decoder.parse_ads_b_line: the line framer                           *)
(* ------------------------------------------------------------------ *)
\* A raw line is the list line.strip().split() of its tokens; a token is a
\* non-empty string of characters without white space.
MAX_MESSAGE_LENGTH == 32
DecDigits == <<"0", "1", "2", "3", "4", "5", "6", "7", "8", "9">>
HexChars ==
    {DecDigits[i] : i \in 1..10} \cup {"A", "B", "C", "D", "E", "F"}

\* str.upper() of one character
Upper(c) ==
    CASE c = "a" -> "A" [] c = "b" -> "B" [] c = "c" -> "C"
      [] c = "d" -> "D" [] c = "e" -> "E" [] c = "f" -> "F"
      [] c = "u" -> "U" [] c = "g" -> "G"
      [] OTHER -> c

\* np.float64(parts[0]) for the plain decimal notation (digits with at most
\* one point): None is the ValueError, otherwise the whole seconds.
ParseTimestamp(tok) ==
    LET digits == {DecDigits[i] : i \in 1..10}
        points == {i \in 1..Len(tok) : tok[i] = "."}
        whole == IF points = {} THEN Len(tok) ELSE (CHOOSE i \in points : TRUE) - 1
        DigitVal(c) == (CHOOSE i \in 1..10 : DecDigits[i] = c) - 1
        RECURSIVE Value(_)
        Value(n) == IF n = 0 THEN 0 ELSE 10 * Value(n - 1) + DigitVal(tok[n])
    IN  IF /\ \A i \in 1..Len(tok) : tok[i] \in digits \cup {"."}
           /\ Cardinality(points) <= 1
           /\ \E i \in 1..Len(tok) : tok[i] \in digits
        THEN Some(Value(whole))
        ELSE None

\* ' '.join(hex_parts).upper().strip().replace(" ", "")
RECURSIVE JoinUpper(_)
JoinUpper(parts) ==
    IF parts = <<>> THEN <<>>
    ELSE [i \in 1..Len(parts[1]) |-> Upper(parts[1][i])] \o JoinUpper(Tail(parts))

HexParts_WithoutLengthTest(parts) ==
    IF JoinUpper(<<parts[2]>>) \in {<<"D", "F">>, <<"U", "F">>}
    THEN SubSeq(parts, 3, Len(parts))
    ELSE SubSeq(parts, 2, Len(parts))

\* hex_parts: the tokens after the timestamp, and after the DF/UF column
\* when the line has one (a line of at least 2 tokens)
HexParts(parts) ==
    IF Len(parts) >= 3
       /\ JoinUpper(<<parts[2]>>) \in {<<"D", "F">>, <<"U", "F">>}
    THEN SubSeq(parts, 3, Len(parts))
    ELSE SubSeq(parts, 2, Len(parts))

BytesList_DropOddDigit(message_str) ==
    LET HexDigits == DecDigits \o <<"A", "B", "C", "D", "E", "F">>
        HexVal(c) == (CHOOSE k \in 1..16 : HexDigits[k] = c) - 1
    IN  [i \in 1..(Len(message_str) \div 2) |->
            16 * HexVal(message_str[2 * i - 1]) + HexVal(message_str[2 * i])]

\* [int(message_str[i:i + 2], 16) for i in range(0, len(message_str), 2)]
BytesList(message_str) ==
    LET HexDigits == DecDigits \o <<"A", "B", "C", "D", "E", "F">>
        HexVal(c) == (CHOOSE k \in 1..16 : HexDigits[k] = c) - 1
    IN  [i \in 1..((Len(message_str) + 1) \div 2) |->
            IF 2 * i <= Len(message_str)
            THEN 16 * HexVal(message_str[2 * i - 1]) + HexVal(message_str[2 * i])
            ELSE HexVal(message_str[2 * i - 1])]

\* None, or the timestamp, the byte container (message_length bytes of
\* message) and the hex string handed to the decoder.
parse_ads_b_line(parts) ==
    LET message_str == JoinUpper(HexParts(parts))
    IN  IF Len(parts) < 2 THEN None
        ELSE IF ParseTimestamp(parts[1]) = None THEN None
        ELSE IF message_str = <<>>
                \/ \E i \in 1..Len(message_str) : message_str[i] \notin HexChars
        THEN None
        ELSE LET bytes_list == BytesList(message_str)
                 message_length ==
                     IF Len(bytes_list) < MAX_MESSAGE_LENGTH THEN Len(bytes_list)
                     ELSE MAX_MESSAGE_LENGTH
             IN  Some([timestamp |-> Val(ParseTimestamp(parts[1])),
                       message_str |-> message_str,
                       message_length |-> message_length,
                       message |-> SubSeq(bytes_list, 1, message_length)])

\* Lines of a log together with what pms.icao / pms.df do for their hex
\* string: ident is FALSE when one of the two calls raises.
RawLines ==
    {[parts |-> <<>>, ident |-> FALSE],
     [parts |-> <<<<"1", "0", "0">>>>, ident |-> FALSE],
     [parts |-> <<<<"8", "D">>, <<"4", "8">>>>, ident |-> FALSE],
     [parts |-> <<<<"1", "0", "0">>, <<"8", "G">>>>, ident |-> FALSE],
     [parts |-> <<<<"1", "0", "0">>, <<"U", "F">>>>, ident |-> FALSE],
     [parts |-> <<<<"1", "0", "0">>, <<"d", "f">>, <<"z">>>>, ident |-> FALSE],
     [parts |-> <<<<"1", "0", "4">>, <<"8", "d">>>>, ident |-> FALSE],
     [parts |-> <<<<"1", "0", "4">>, <<"D", "F">>, <<"8", "d">>, <<"4", "8">>>>,
      ident |-> TRUE]}

\* How far a line gets in the head of the line loop.
LineKind(raw) ==
    IF raw.parts = <<>> THEN "blank"
    ELSE IF parse_ads_b_line(raw.parts) = None THEN "malformed"
    ELSE IF ~raw.ident THEN "unidentified"
    ELSE "identified"

\* Results of pms.adsb.position for a pair: a position, None, or an exception.
PosOutcomes == {"pos", "none", "raise"}
ResolvedPos == <<52, 4>>

(* ------------------------------------------------------------------ *)
(* decoder.py wrappers                                                 *)
(* ------------------------------------------------------------------ *)
IsAdsb(m) == m.df \in {17, 18}
TcIn_FromBelow(m, lo, hi) == IsSome(m.tc) /\ lo - 1 <= Val(m.tc) /\ Val(m.tc) <= hi

\* lo <= tc <= hi
TcIn(m, lo, hi) == IsSome(m.tc) /\ lo <= Val(m.tc) /\ Val(m.tc) <= hi

get_altitude_any_df(m) ==
    IF IsAdsb(m)
    THEN IF TcIn(m, 9, 18) THEN m.alt ELSE None
    ELSE IF m.df \in {0, 4, 16, 20} THEN m.alt ELSE None

get_squawk(m) == IF m.df \in {5, 21} THEN m.sq ELSE None

get_velocity(m) ==
    IF IsAdsb(m) /\ TcIn(m, 19, 19) THEN m.gs ELSE None

get_course(m) ==
    IF IsAdsb(m) /\ TcIn(m, 19, 19) THEN m.course ELSE None

SelAltPlausible_Unchecked(v) == TRUE

\* -2000 <= selected_alt <= 50000
SelAltPlausible(v) == SEL_ALT_MIN <= v /\ v <= SEL_ALT_MAX

get_selected_altitude(m) ==
    IF IsAdsb(m) /\ TcIn(m, 29, 29) /\ IsSome(m.sel)
       /\ SelAltPlausible(Val(m.sel)[1])
    THEN Some(<<Val(m.sel)[1], {MODE_MAP(c) : c \in Val(m.sel)[2]}>>)
    ELSE None

AltDiffPlausible(v) == ALT_DIFF_MIN <= v /\ v <= ALT_DIFF_MAX

get_altitude_difference(m) ==
    IF IsAdsb(m) /\ TcIn(m, 19, 19) /\ IsSome(m.diff)
       /\ AltDiffPlausible(Val(m.diff))
    THEN m.diff
    ELSE None

BaroPlausible(v) == BARO_MIN <= v /\ v <= BARO_MAX

get_baro_correction(m) ==
    IF IsAdsb(m) /\ TcIn(m, 29, 29) /\ IsSome(m.baro)
       /\ BaroPlausible(Val(m.baro))
    THEN m.baro
    ELSE None

\* ''.join(c for c in callsign if c.isalnum())
Sanitize(s) == SelectSeq(s, LAMBDA c : c \in AlnumChars)

get_callsign(m) ==
    IF IsAdsb(m) /\ TcIn(m, 1, 4) /\ IsSome(m.cs) /\ Val(m.cs) # <<>>
    THEN Some(Sanitize(Val(m.cs)))
    ELSE None

get_format_label(m) ==
    LET length_type ==
            IF m.df \in {0, 4, 5, 11} THEN "S"
            ELSE IF m.df \in {16, 17, 18, 19, 20, 21, 24} THEN "L"
            ELSE IF m.nhex * 4 = 56 THEN "S"
            ELSE IF m.nhex * 4 = 112 THEN "L"
            ELSE "?"
    IN  [df |-> m.df, len |-> length_type]

(* ------------------------------------------------------------------ *)
(* Decisions of the ingestion loop                                     *)
(* ------------------------------------------------------------------ *)
\* Python truthiness of an optional string: neither None nor ''.
Truthy(o) == IsSome(o) /\ Val(o) # <<>>

AltPlausible_NoUpper(alt) == IsSome(alt) /\ ALT_MIN <= Val(alt)

\* alt is not None and -2000 <= alt <= 60000
AltPlausible(alt) == IsSome(alt) /\ ALT_MIN <= Val(alt) /\ Val(alt) <= ALT_MAX

CprInWindow_Inclusive(t0, t1) == Abs(t0 - t1) <= CPR_WINDOW

\* abs(t0 - t1) < 10
CprInWindow(t0, t1) == Abs(t0 - t1) < CPR_WINDOW

BaroFresh_Inclusive(t, last_ts) == Abs(t - last_ts) <= BARO_WINDOW

\* abs(msg.timestamp - last_ts) < 5.0
BaroFresh(t, last_ts) == Abs(t - last_ts) < BARO_WINDOW

StoreSquawk_RangeChecked(old, sq) ==
    IF Truthy(sq) /\ (\A i \in 1..Len(Val(sq)) : Val(sq)[i] \in 0..7)
    THEN sq ELSE old

\* if sq: icao_callsigns[f"{aa}_sq"] = sq
StoreSquawk(old, sq) == IF Truthy(sq) THEN sq ELSE old

StoreCallsign_WriteOnce(old, cs) ==
    IF IsSome(old) THEN old ELSE IF Truthy(cs) THEN cs ELSE old

\* if cs: icao_callsigns[aa] = cs
StoreCallsign(old, cs) == IF Truthy(cs) THEN cs ELSE old

UnionModes_Replace(existing_modes, modes) == modes

\* existing_modes.union(modes)
UnionModes(existing_modes, modes) == existing_modes \cup modes

UpdateTimes_CreateOnly(old, t) ==
    IF old = None THEN Some([first |-> t, last |-> t]) ELSE old

UpdateTimes_DropOnRepeat(old, t) ==
    IF old = None THEN Some([first |-> t, last |-> t]) ELSE None

UpdateTimes_MinMax(old, t) ==
    IF old = None
    THEN Some([first |-> t, last |-> t])
    ELSE Some([first |-> IF t < Val(old).first THEN t ELSE Val(old).first,
               last |-> IF t > Val(old).last THEN t ELSE Val(old).last])

\* icao_times[aa] = {"first": t, "last": t}  /  icao_times[aa]["last"] = t
UpdateTimes(old, t) ==
    IF old = None
    THEN Some([first |-> t, last |-> t])
    ELSE Some([first |-> Val(old).first, last |-> t])

StoreBaro_KeepNewest(old, t, alt) ==
    IF IsSome(old) /\ Val(old)[1] > t THEN old ELSE Some(<<t, alt>>)

\* current_baro_buffer[aa] = (msg.timestamp, alt)
StoreBaro(old, t, alt) == Some(<<t, alt>>)

StoreFrame_KeepFirst(slots, oe, m, t) ==
    IF slots[oe + 1] = None
    THEN [slots EXCEPT ![oe + 1] = Some([msg |-> m, t |-> t])]
    ELSE slots

\* cpr_messages[aa][oe_flag] = (message_str, msg.timestamp)
StoreFrame(slots, oe, m, t) == [slots EXCEPT ![oe + 1] = Some([msg |-> m, t |-> t])]

\* all(cpr_messages[aa])
BothSlots(slots) == IsSome(slots[1]) /\ IsSome(slots[2])

EmptySlots == <<None, None>>

ReportRows_Descending(list, times) ==
    SelectSeq([i \in 1..Len(SortedIcaos) |-> SortedIcaos[Len(SortedIcaos) + 1 - i]],
              LAMBDA icao : icao \in list /\ times[icao] # None)

\* for icao in sorted(list(adsb_icao_list)):
\*     if icao not in icao_times: continue
\*     ... print(row)
ReportRows(list, times) ==
    SelectSeq(SortedIcaos, LAMBDA icao : icao \in list /\ times[icao] # None)

HasAdsbLabel_AnyLong(dfs) == \E label \in dfs : label.len = "L"

\* The "DF17" / "DF18" substring test of the capability filter.  A label is
\* "DF<df>(<len>)" with df the format number, so the substring occurs
\* exactly in the labels of the formats 17 and 18.
HasAdsbLabel(dfs) == \E label \in dfs : label.df \in {17, 18}

(* ------------------------------------------------------------------ *)
(* IcaoGraphs._plot_histogram: the timing analysis                     *)
(* ------------------------------------------------------------------ *)
\* The timestamps of a list are float64 numbers.  A non-negative float64
\* below 2^13 is written exactly as a natural number of units of 2^-60,
\* held in four limbs of 20 bits, least significant first; a limb vector
\* is a float64 when it has at most 53 significant bits.
Base == 2^20
WZero == <<0, 0, 0, 0>>

WLess(a, b) ==
    \/ a[4] < b[4]
    \/ a[4] = b[4] /\ a[3] < b[3]
    \/ a[4] = b[4] /\ a[3] = b[3] /\ a[2] < b[2]
    \/ a[4] = b[4] /\ a[3] = b[3] /\ a[2] = b[2] /\ a[1] < b[1]

WAdd(a, b) ==
    LET s1 == a[1] + b[1]
        s2 == a[2] + b[2] + s1 \div Base
        s3 == a[3] + b[3] + s2 \div Base
        s4 == a[4] + b[4] + s3 \div Base
    IN  <<s1 % Base, s2 % Base, s3 % Base, s4 % Base>>

\* a - b for a >= b
WSub(a, b) ==
    LET d1 == a[1] - b[1]
        d2 == a[2] - b[2] - (IF d1 < 0 THEN 1 ELSE 0)
        d3 == a[3] - b[3] - (IF d2 < 0 THEN 1 ELSE 0)
        d4 == a[4] - b[4] - (IF d3 < 0 THEN 1 ELSE 0)
    IN  <<(d1 + Base) % Base, (d2 + Base) % Base, (d3 + Base) % Base,
          (d4 + Base) % Base>>

\* a * k for a natural k up to 1000
WMul(a, k) ==
    LET p1 == a[1] * k
        p2 == a[2] * k + p1 \div Base
        p3 == a[3] * k + p2 \div Base
        p4 == a[4] * k + p3 \div Base
    IN  <<p1 % Base, p2 % Base, p3 % Base, p4 % Base>>

Round53_TowardZero(a) ==
    LET top == CHOOSE i \in 1..4 : a[i] # 0 /\ \A j \in 1..4 : j > i => a[j] = 0
        len == 20 * (top - 1)
                 + (CHOOSE n \in 1..20 : 2^(n - 1) <= a[top] /\ a[top] < 2^n)
        d == len - 53
    IN  IF a = WZero \/ d <= 0 THEN a
        ELSE [i \in 1..4 |-> IF i <= d \div 20 THEN 0
                             ELSE IF i = d \div 20 + 1
                             THEN a[i] - (a[i] % 2^(d % 20)) ELSE a[i]]

\* Rounding of an exact result to float64: to 53 significant bits, to
\* nearest, ties to even.
Round53(a) ==
    LET top == CHOOSE i \in 1..4 : a[i] # 0 /\ \A j \in 1..4 : j > i => a[j] = 0
        len == 20 * (top - 1)
                 + (CHOOSE n \in 1..20 : 2^(n - 1) <= a[top] /\ a[top] < 2^n)
        d == len - 53
        q == d \div 20
        r == d % 20
        unit == [i \in 1..4 |-> IF i = q + 1 THEN 2^r ELSE 0]
        half == [i \in 1..4 |-> IF i = (d - 1) \div 20 + 1
                                THEN 2^((d - 1) % 20) ELSE 0]
        rem == [i \in 1..4 |-> IF i <= q THEN a[i]
                               ELSE IF i = q + 1 THEN a[i] % 2^r ELSE 0]
        down == WSub(a, rem)
        odd == (down[q + 1] \div 2^r) % 2 = 1
    IN  IF a = WZero \/ d <= 0 THEN a
        ELSE IF WLess(rem, half) THEN down
        ELSE IF WLess(half, rem) THEN WAdd(down, unit)
        ELSE IF odd THEN WAdd(down, unit) ELSE down

\* The float64 of a whole number below 2^13 (milliseconds, a band limit).
WInt(k) == <<0, 0, 0, k>>

\* float64 subtraction with its sign, and multiplication by 1000
FSub(a, b) ==
    IF WLess(a, b) THEN [neg |-> TRUE, mag |-> Round53(WSub(b, a))]
    ELSE [neg |-> FALSE, mag |-> Round53(WSub(a, b))]

FMul1000(x) == [neg |-> x.neg, mag |-> Round53(WMul(x.mag, 1000))]

\* The timestamps of the lists analysed: the float64 numbers np.float64
\* gives for "0.0", "0.5", "0.6", "1.0" and "1.6".  Their differences in
\* milliseconds are 0, 99.99999999999997, 400, 500, 600, 600.0000000000001,
\* 1000, 1100 and 1600.
Stamp00 == WZero
Stamp05 == <<0, 0, 524288, 0>>
Stamp06 == <<629120, 629145, 629145, 0>>
Stamp10 == <<0, 0, 0, 1>>
Stamp16 == <<629248, 629145, 629145, 1>>
Stamps == {Stamp00, Stamp05, Stamp06, Stamp10, Stamp16}

\* The histogram modes with their target interval and tolerance (ms).
HistModes ==
    {"df11_msg_intervals", "reg05_msg_intervals", "reg06_msg_intervals",
     "reg08_msg_intervals", "reg09_msg_intervals", "reg61_msg_intervals",
     "reg62_msg_intervals", "reg65_msg_intervals"}

ModeParams(mode) ==
    CASE mode = "df11_msg_intervals" -> [center |-> 1000, dev |-> 200]
      [] mode \in {"reg08_msg_intervals", "reg61_msg_intervals"}
             -> [center |-> 5000, dev |-> 200]
      [] mode = "reg62_msg_intervals" -> [center |-> 1250, dev |-> 100]
      [] mode = "reg65_msg_intervals" -> [center |-> 2500, dev |-> 100]
      [] OTHER -> [center |-> 500, dev |-> 100]

TooFewStamps_OneIsEnough(data_source) ==
    data_source = None \/ Len(Val(data_source)) < 1

\* not data_source or len(data_source) < 2
TooFewStamps(data_source) == data_source = None \/ Len(Val(data_source)) < 2

SortedStamps_Unsorted(data) == data

\* sorted(data_source)
RECURSIVE SortedStamps(_)
SortedStamps(data) ==
    IF data = <<>> THEN <<>>
    ELSE LET rest == SortedStamps(Tail(data))
             k == Cardinality({i \in 1..Len(rest) : ~WLess(Head(data), rest[i])})
         IN  SubSeq(rest, 1, k) \o <<Head(data)>> \o SubSeq(rest, k + 1, Len(rest))

KeepInterval_Positive(x) == ~x.neg /\ x.mag # WZero

\* intervals >= 0
KeepInterval(x) == ~x.neg

InBand_Exclusive(x, low, high) == WLess(WInt(low), x) /\ WLess(x, WInt(high))

\* (intervals >= low) & (intervals <= high)
InBand(x, low, high) == ~WLess(x, WInt(low)) /\ ~WLess(WInt(high), x)

TailCounts_LastBinOpen(left) ==
    LET lo == CHOOSE x \in {left[i] : i \in 1..Len(left)} :
                  \A j \in 1..Len(left) : ~WLess(left[j], x)
        hi == CHOOSE x \in {left[i] : i \in 1..Len(left)} :
                  \A j \in 1..Len(left) : ~WLess(x, left[j])
        BinOf(x) ==
            IF lo = hi THEN 2
            ELSE Cardinality({k \in 1..5 :
                    ~WLess(WMul(WSub(x, lo), 5), WMul(WSub(hi, lo), k))})
        bins == [i \in 1..Len(left) |-> BinOf(left[i])] \o <<>>
    IN  [b \in 1..5 |-> Cardinality({i \in 1..Len(left) : bins[i] = b - 1})]

\* counts of np.histogram(left, bins=5): five bins of equal width over
\* [min, max], each closed on the left and open on the right, the last one
\* closed; over [min - 0.5, max + 0.5] when min = max.  The bin of x is
\* the number of inner edges min + k * (max - min) / 5 not above x.
TailCounts(left) ==
    LET lo == CHOOSE x \in {left[i] : i \in 1..Len(left)} :
                  \A j \in 1..Len(left) : ~WLess(left[j], x)
        hi == CHOOSE x \in {left[i] : i \in 1..Len(left)} :
                  \A j \in 1..Len(left) : ~WLess(x, left[j])
        BinOf(x) ==
            IF lo = hi THEN 2
            ELSE Cardinality({k \in 1..4 :
                    ~WLess(WMul(WSub(x, lo), 5), WMul(WSub(hi, lo), k))})
        bins == [i \in 1..Len(left) |-> BinOf(left[i])] \o <<>>
    IN  [b \in 1..5 |-> Cardinality({i \in 1..Len(left) : bins[i] = b - 1})]

RankBins_ByTuple(counts) ==
    LET Before(p, q) == p.count > q.count \/ (p.count = q.count /\ p.idx > q.idx)
        bin_data == {[count |-> counts[b], idx |-> b - 1] : b \in 1..5}
    IN  [n \in 1..5 |->
            CHOOSE p \in bin_data :
                Cardinality({q \in bin_data : Before(q, p)}) = n - 1]

\* bin_data.sort(key=lambda x: x[0], reverse=True): by count, largest
\* first; bins of equal count stay in the order of their index.
RankBins(counts) ==
    LET Before(p, q) == p.count > q.count \/ (p.count = q.count /\ p.idx < q.idx)
        bin_data == {[count |-> counts[b], idx |-> b - 1] : b \in 1..5}
    IN  [n \in 1..5 |->
            CHOOSE p \in bin_data :
                Cardinality({q \in bin_data : Before(q, p)}) = n - 1]

\* left_stats: of the first three ranked bins those with count > 0
TopOffenders(left) ==
    IF left = <<>> THEN <<>>
    ELSE SelectSeq(SubSeq(RankBins(TailCounts(left)), 1, 3),
                   LAMBDA p : p.count > 0)

\* no line handed to the framer yet
NoFrame == [done |-> FALSE, result |-> None, handed |-> None]

NoPlot ==
    [outcome |-> "none", center |-> 0, dev |-> 0, intervals |-> <<>>,
     middle |-> <<>>, left |-> <<>>, right |-> <<>>, counts |-> <<>>,
     left_stats |-> <<>>]

\* What _plot_histogram computes for a timestamp list.
Analysis(data_source, center, dev) ==
    LET timestamps == SortedStamps(Val(data_source))
        diffs == [i \in 1..(Len(timestamps) - 1) |->
                     FMul1000(FSub(timestamps[i + 1], timestamps[i]))]
        kept == SelectSeq(diffs, KeepInterval)
        intervals == [i \in 1..Len(kept) |-> kept[i].mag]
        low == center - dev
        high == center + dev
        left == SelectSeq(intervals, LAMBDA x : WLess(x, WInt(low)))
    IN  IF TooFewStamps(data_source)
        THEN [NoPlot EXCEPT !.outcome = "insufficient data",
                            !.center = center, !.dev = dev]
        ELSE IF Len(intervals) = 0
        THEN [NoPlot EXCEPT !.outcome = "no valid intervals",
                            !.center = center, !.dev = dev]
        ELSE [outcome |-> "plotted", center |-> center, dev |-> dev,
              intervals |-> intervals,
              middle |-> SelectSeq(intervals, LAMBDA x : InBand(x, low, high)),
              left |-> left,
              right |-> SelectSeq(intervals, LAMBDA x : WLess(WInt(high), x)),
              counts |-> IF left = <<>> THEN <<>> ELSE TailCounts(left),
              left_stats |-> TopOffenders(left)]

(* ------------------------------------------------------------------ *)
(* State                                                               *)
(* ------------------------------------------------------------------ *)
VARIABLES
    file_idx,                 \* position in files_to_process
    pc,                       \* "read", "visual" or "done"
    line_num,                 \* lines read of the current file
    lines_total,              \* lines read of all files
    feed,                     \* the lines that may occur in the logs
    target_icao,              \* the -a option, None when absent
    adsb_icao_list,
    icao_dfs,
    icao_times,
    icao_altitude,
    icao_gnss_altitude,
    icao_speed,
    icao_courses,
    icao_positions,
    icao_selected_altitude,
    icao_altitude_difference,
    icao_baro_correction,
    icao_has_selected_alt,
    icao_callsigns,           \* [cs, sq, modes]: the keys aa, aa_sq, aa_modes
    cpr_messages,
    current_baro_buffer,
    icao_airborne_pos_ts,
    icao_surface_pos_ts,
    icao_ident_timestamps,
    icao_speed_ts,
    icao_status_ts,
    icao_target_state_ts,
    icao_operation_status_ts,
    icao_df11_ts,
    total_icao_count,
    filtered_count,
    rows,                     \* the rows of the summary table: their ICAO column
    outcomes,                 \* per finished file: "ok", "notfound", "critical"
    seen_ts,                  \* history: timestamps of the identified messages
    seen_dfs,                 \* history: formats of the identified messages
    cpr_use,                  \* history: position frames and resolution attempts
    last,                     \* history: the line just read and what it did
    trace,                    \* history: the lines read of the current file
    runs,                     \* history: per file read to its end, its lines
                              \*          and what the main routine made of them
    data_source,              \* the timestamp list of the histogram mode shown
    hist,                     \* what _plot_histogram computed for it
    raw_parts,                \* the tokens of a line handed to the line framer
    framed,                   \* what parse_ads_b_line returned for them
    icao_list,                \* IcaoGraphs: the aircraft shown, by rank
    plot_modes,               \* IcaoGraphs: the views
    icao_index,               \* IcaoGraphs: index of the aircraft shown
    plot_mode_idx,            \* IcaoGraphs: index of the view shown
    shown,                    \* what plot_current drew last
    streak                    \* history: the run of equal navigation events

series ==
    <<icao_altitude, icao_gnss_altitude, icao_speed, icao_courses,
      icao_positions, icao_selected_altitude, icao_altitude_difference,
      icao_baro_correction>>

ts_lists ==
    <<icao_airborne_pos_ts, icao_surface_pos_ts, icao_ident_timestamps,
      icao_speed_ts, icao_status_ts, icao_target_state_ts,
      icao_operation_status_ts>>

aggregate ==
    <<adsb_icao_list, icao_dfs, icao_times, series, icao_has_selected_alt,
      icao_callsigns, cpr_messages, current_baro_buffer, ts_lists,
      icao_df11_ts, seen_ts, seen_dfs, cpr_use>>

report == <<total_icao_count, filtered_count, rows>>

gui == <<icao_list, plot_modes, icao_index, plot_mode_idx, shown, streak>>

vars ==
    <<file_idx, pc, line_num, lines_total, feed, target_icao, aggregate, report,
      outcomes, last, trace, runs, data_source, hist, raw_parts, framed, gui>>

NoLine == [t |-> 0, aa |-> "", msg |-> Blank]
\* what the aircraft of the line held before the line was processed
NoBefore ==
    [cs |-> None, sq |-> None, modes |-> {}, times |-> None, buf |-> None,
     slots |-> EmptySlots]
NoStep == [kind |-> "none", line |-> NoLine, pos |-> "none", calls |-> 0,
           raised |-> FALSE, ver |-> 0, before |-> NoBefore]

EmptyDict == [a \in Icaos |-> <<>>]
\* no position frame ingested and no resolution attempted
NoUse == [a \in Icaos |-> [frames |-> 0, attempts |-> 0]]

FreshFile_KeepsAltitude ==
    /\ line_num' = 0
    /\ adsb_icao_list' = {}
    /\ icao_dfs' = [a \in Icaos |-> {}]
    /\ icao_times' = [a \in Icaos |-> None]
    /\ icao_altitude' = icao_altitude
    /\ icao_gnss_altitude' = EmptyDict
    /\ icao_speed' = EmptyDict
    /\ icao_courses' = EmptyDict
    /\ icao_positions' = EmptyDict
    /\ icao_selected_altitude' = EmptyDict
    /\ icao_altitude_difference' = EmptyDict
    /\ icao_baro_correction' = EmptyDict
    /\ icao_has_selected_alt' = [a \in Icaos |-> FALSE]
    /\ icao_callsigns' = [cs |-> [a \in Icaos |-> None],
                          sq |-> [a \in Icaos |-> None],
                          modes |-> [a \in Icaos |-> {}]]
    /\ cpr_messages' = [a \in Icaos |-> EmptySlots]
    /\ current_baro_buffer' = [a \in Icaos |-> None]
    /\ icao_airborne_pos_ts' = EmptyDict
    /\ icao_surface_pos_ts' = EmptyDict
    /\ icao_ident_timestamps' = EmptyDict
    /\ icao_speed_ts' = EmptyDict
    /\ icao_status_ts' = EmptyDict
    /\ icao_target_state_ts' = EmptyDict
    /\ icao_operation_status_ts' = EmptyDict
    /\ icao_df11_ts' = EmptyDict
    /\ total_icao_count' = 0
    /\ filtered_count' = 0
    /\ rows' = <<>>
    /\ seen_ts' = EmptyDict
    /\ seen_dfs' = [a \in Icaos |-> {}]
    /\ cpr_use' = NoUse
    /\ trace' = <<>>

\* The dictionaries as main sets them up for each file.
FreshFile ==
    /\ line_num' = 0
    /\ adsb_icao_list' = {}
    /\ icao_dfs' = [a \in Icaos |-> {}]
    /\ icao_times' = [a \in Icaos |-> None]
    /\ icao_altitude' = EmptyDict
    /\ icao_gnss_altitude' = EmptyDict
    /\ icao_speed' = EmptyDict
    /\ icao_courses' = EmptyDict
    /\ icao_positions' = EmptyDict
    /\ icao_selected_altitude' = EmptyDict
    /\ icao_altitude_difference' = EmptyDict
    /\ icao_baro_correction' = EmptyDict
    /\ icao_has_selected_alt' = [a \in Icaos |-> FALSE]
    /\ icao_callsigns' = [cs |-> [a \in Icaos |-> None],
                          sq |-> [a \in Icaos |-> None],
                          modes |-> [a \in Icaos |-> {}]]
    /\ cpr_messages' = [a \in Icaos |-> EmptySlots]
    /\ current_baro_buffer' = [a \in Icaos |-> None]
    /\ icao_airborne_pos_ts' = EmptyDict
    /\ icao_surface_pos_ts' = EmptyDict
    /\ icao_ident_timestamps' = EmptyDict
    /\ icao_speed_ts' = EmptyDict
    /\ icao_status_ts' = EmptyDict
    /\ icao_target_state_ts' = EmptyDict
    /\ icao_operation_status_ts' = EmptyDict
    /\ icao_df11_ts' = EmptyDict
    /\ total_icao_count' = 0
    /\ filtered_count' = 0
    /\ rows' = <<>>
    /\ seen_ts' = EmptyDict
    /\ seen_dfs' = [a \in Icaos |-> {}]
    /\ cpr_use' = NoUse
    /\ trace' = <<>>

InitFiles ==
    /\ file_idx = 1
    /\ pc = "read"
    /\ line_num = 0
    /\ lines_total = 0
    /\ feed \in Feeds
    /\ target_icao \in {None, Some("4840D6")}
    /\ adsb_icao_list = {}
    /\ icao_dfs = [a \in Icaos |-> {}]
    /\ icao_times = [a \in Icaos |-> None]
    /\ icao_altitude = EmptyDict
    /\ icao_gnss_altitude = EmptyDict
    /\ icao_speed = EmptyDict
    /\ icao_courses = EmptyDict
    /\ icao_positions = EmptyDict
    /\ icao_selected_altitude = EmptyDict
    /\ icao_altitude_difference = EmptyDict
    /\ icao_baro_correction = EmptyDict
    /\ icao_has_selected_alt = [a \in Icaos |-> FALSE]
    /\ icao_callsigns = [cs |-> [a \in Icaos |-> None],
                         sq |-> [a \in Icaos |-> None],
                         modes |-> [a \in Icaos |-> {}]]
    /\ cpr_messages = [a \in Icaos |-> EmptySlots]
    /\ current_baro_buffer = [a \in Icaos |-> None]
    /\ icao_airborne_pos_ts = EmptyDict
    /\ icao_surface_pos_ts = EmptyDict
    /\ icao_ident_timestamps = EmptyDict
    /\ icao_speed_ts = EmptyDict
    /\ icao_status_ts = EmptyDict
    /\ icao_target_state_ts = EmptyDict
    /\ icao_operation_status_ts = EmptyDict
    /\ icao_df11_ts = EmptyDict
    /\ total_icao_count = 0
    /\ filtered_count = 0
    /\ rows = <<>>
    /\ outcomes = <<>>
    /\ seen_ts = EmptyDict
    /\ seen_dfs = [a \in Icaos |-> {}]
    /\ cpr_use = NoUse
    /\ last = NoStep
    /\ trace = <<>>
    /\ runs = <<>>

\* The main routine: no histogram is shown while the files are read.
Init ==
    /\ InitFiles
    /\ data_source = None /\ hist = NoPlot
    /\ raw_parts = <<>> /\ framed = NoFrame
    /\ icao_list = <<>> /\ plot_modes = <<>>
    /\ icao_index = 0 /\ plot_mode_idx = 0
    /\ shown = [icao |-> 0, mode |-> ""]
    /\ streak = [handler |-> "", count |-> 0, start |-> <<0, 0>>, before |-> <<0, 0>>]

(* ------------------------------------------------------------------ *)
(* The path one message takes through the try block of the line loop   *)
(* ------------------------------------------------------------------ *)
\* tc = pms.adsb.typecode(message_str) was reached and returned
TcReturned(m) == IsAdsb(m) /\ IsSome(m.tc)
\* the "if 9 <= tc <= 18" branch
IsPosition(m) == TcReturned(m) /\ TcIn(m, 9, 18)
\* the frame was stored: oe_flag returned
FrameStored(m) == IsPosition(m) /\ IsSome(m.oe)
\* the slots of the aircraft after the store
SlotsAfterStore(slots, m, t) ==
    IF FrameStored(m) THEN StoreFrame(slots, Val(m.oe), m, t) ELSE slots
\* both slots populated after the store
PairComplete(slots, m, t) ==
    FrameStored(m) /\ BothSlots(SlotsAfterStore(slots, m, t))
\* pms.adsb.position is called
ResolveAttempted(slots, m, t) ==
    /\ PairComplete(slots, m, t)
    /\ CprInWindow(Val(SlotsAfterStore(slots, m, t)[1]).t,
                   Val(SlotsAfterStore(slots, m, t)[2]).t)
\* cpr_messages[aa] = [None, None] is reached
SlotsCleared(slots, m, t, pos) == ResolveAttempted(slots, m, t) /\ pos # "raise"
\* the slots of the aircraft when the message has been processed
SlotsAfter(slots, m, t, pos) ==
    IF SlotsCleared(slots, m, t, pos) THEN EmptySlots
    ELSE SlotsAfterStore(slots, m, t)
\* the "elif tc == 19", "elif 1 <= tc <= 4" and "elif tc == 29" branches
IsVelocity(m) == TcReturned(m) /\ TcIn(m, 19, 19)
IsIdent(m) == TcReturned(m) /\ TcIn(m, 1, 4)
IsTargetState(m) == TcReturned(m) /\ TcIn(m, 29, 29)
\* an exception reaches "except Exception: continue"
Raised(slots, m, t, pos) ==
    \/ IsAdsb(m) /\ m.tc = Fails
    \/ IsPosition(m) /\ m.oe = Fails
    \/ ResolveAttempted(slots, m, t) /\ pos = "raise"

GnssSample_WithoutDifference(buf, m, t) ==
    IF IsVelocity(m) /\ IsSome(buf) /\ BaroFresh(t, Val(buf)[1])
    THEN Some(<<t, Val(buf)[2] + (IF IsSome(get_altitude_difference(m))
                                 THEN Val(get_altitude_difference(m)) ELSE 0)>>)
    ELSE None

GnssSample_DefaultBaro(buf, m, t) ==
    IF IsVelocity(m) /\ IsSome(get_altitude_difference(m))
    THEN IF IsSome(buf)
         THEN IF BaroFresh(t, Val(buf)[1])
              THEN Some(<<t, Val(buf)[2] + Val(get_altitude_difference(m))>>)
              ELSE None
         ELSE Some(<<t, Val(get_altitude_difference(m))>>)
    ELSE None

\* the GNSS-derived sample of a velocity message, if any
GnssSample(buf, m, t) ==
    IF /\ IsVelocity(m)
       /\ IsSome(get_altitude_difference(m))
       /\ IsSome(buf)
       /\ BaroFresh(t, Val(buf)[1])
    THEN Some(<<t, Val(buf)[2] + Val(get_altitude_difference(m))>>)
    ELSE None

PositionSample_LatestOfPair(t, t0, t1) ==
    <<IF t0 > t1 THEN t0 ELSE t1, ResolvedPos[1], ResolvedPos[2]>>

\* (msg.timestamp, pos[0], pos[1]) for the pair (msg0, t0), (msg1, t1)
PositionSample(t, t0, t1) == <<t, ResolvedPos[1], ResolvedPos[2]>>

\* what pms.adsb.position may do for the message: it is called only for a
\* complete pair inside the window
PosOutcomesFor(slots, m, t) ==
    IF ResolveAttempted(slots, m, t) THEN PosOutcomes ELSE {"none"}

\* The history of lines and of per-file results is kept for the replay logs.
Logged(log, entry) == IF feed = ReplayFeed THEN Append(log, entry) ELSE log

AppendIf_AllAircraft(cond, dict, aa, x) ==
    IF cond THEN [a \in Icaos |-> Append(dict[a], x)] ELSE dict

AppendIf_Prepend(cond, dict, aa, x) ==
    IF cond THEN [dict EXCEPT ![aa] = <<x>> \o @] ELSE dict

\* dict.setdefault(aa, []).append(x) under its condition
AppendIf(cond, dict, aa, x) ==
    IF cond THEN [dict EXCEPT ![aa] = Append(@, x)] ELSE dict

AppendOpt(dict, aa, t, o) == AppendIf(IsSome(o), dict, aa, <<t, Val(o)>>)

(* ------------------------------------------------------------------ *)
(* The line loop                                                       *)
(* ------------------------------------------------------------------ *)
\* The number of lines read of all files is bounded.
LineBudget == IF feed = PairFeed THEN MaxLines + 1 ELSE MaxLines

Reading == pc = "read" /\ file_idx <= MaxFiles /\ lines_total < LineBudget

SkipLine_FallsThrough(raw) ==
    /\ Reading
    /\ LineKind(raw) # "identified"
    /\ line_num' = line_num + 1
    /\ lines_total' = lines_total + 1
    /\ last' = [NoStep EXCEPT !.kind = LineKind(raw)]
    /\ trace' = Logged(trace, [kind |-> last'.kind, line |-> last'.line,
                               pos |-> last'.pos])
    /\ UNCHANGED runs
    /\ IF LineKind(raw) = "unidentified" /\ last.kind = "ingest"
       THEN /\ adsb_icao_list' = adsb_icao_list \cup {last.line.aa}
            /\ icao_times' =
                   [icao_times EXCEPT ![last.line.aa] =
                       UpdateTimes(@, Val(parse_ads_b_line(raw.parts)).timestamp)]
       ELSE UNCHANGED <<adsb_icao_list, icao_times>>
    /\ UNCHANGED <<file_idx, pc, feed, target_icao, data_source, hist, raw_parts, framed, gui, icao_dfs, series,
                   icao_has_selected_alt, icao_callsigns, cpr_messages,
                   current_baro_buffer, ts_lists, icao_df11_ts, seen_ts,
                   seen_dfs, cpr_use, report, outcomes>>

\* A line that is blank, that parse_ads_b_line rejects, or whose address
\* or format extraction raises: "continue".
SkipLine(raw) ==
    /\ Reading
    /\ LineKind(raw) # "identified"
    /\ line_num' = line_num + 1
    /\ lines_total' = lines_total + 1
    /\ last' = [NoStep EXCEPT !.kind = LineKind(raw)]
    /\ trace' = Logged(trace, [kind |-> last'.kind, line |-> last'.line,
                               pos |-> last'.pos])
    /\ UNCHANGED runs
    /\ UNCHANGED <<file_idx, pc, feed, target_icao, data_source, hist, raw_parts, framed, gui, aggregate, report, outcomes>>

\* if target_icao and aa != target_icao: continue
SkipOtherAircraft(line) ==
    /\ Reading
    /\ IsSome(target_icao) /\ line.aa # Val(target_icao)
    /\ line_num' = line_num + 1
    /\ lines_total' = lines_total + 1
    /\ last' = [NoStep EXCEPT !.kind = "filtered", !.line = line]
    /\ trace' = Logged(trace, [kind |-> last'.kind, line |-> last'.line,
                               pos |-> last'.pos])
    /\ UNCHANGED runs
    /\ UNCHANGED <<file_idx, pc, feed, target_icao, data_source, hist, raw_parts, framed, gui, aggregate, report, outcomes>>

\* One identified message: from adsb_icao_list.add(aa) to the end of the
\* try block, or to the exception that ends it.
Ingest(line, pos) ==
    LET m == line.msg
        t == line.t
        aa == line.aa
        slots == cpr_messages[aa]
        alt == get_altitude_any_df(m)
        sel == get_selected_altitude(m)
        tcv == Val(m.tc)
    IN
    /\ Reading
    /\ (IF IsSome(target_icao) THEN line.aa = Val(target_icao) ELSE TRUE)
    /\ line_num' = line_num + 1
    /\ lines_total' = lines_total + 1
    /\ adsb_icao_list' = adsb_icao_list \cup {aa}
    /\ icao_dfs' = [icao_dfs EXCEPT ![aa] = @ \cup {get_format_label(m)}]
    /\ icao_times' = [icao_times EXCEPT ![aa] = UpdateTimes(@, t)]
    /\ seen_ts' = [seen_ts EXCEPT ![aa] = Append(@, t)]
    /\ seen_dfs' = [seen_dfs EXCEPT ![aa] = @ \cup {m.df}]
    /\ cpr_use' = [cpr_use EXCEPT
                       ![aa].frames = @ + (IF IsPosition(m) THEN 1 ELSE 0),
                       ![aa].attempts = @ + (IF ResolveAttempted(slots, m, t) THEN 1 ELSE 0)]
    /\ icao_df11_ts' = AppendIf(m.df = 11, icao_df11_ts, aa, t)
    \* barometric altitude and the baro buffer
    /\ icao_altitude' = AppendIf(AltPlausible(alt), icao_altitude, aa, <<t, Val(alt)>>)
    /\ current_baro_buffer' =
           IF AltPlausible(alt)
           THEN [current_baro_buffer EXCEPT ![aa] = StoreBaro(@, t, Val(alt))]
           ELSE current_baro_buffer
    \* squawk, callsign and mode set
    /\ icao_callsigns' =
           [cs |-> [icao_callsigns.cs EXCEPT ![aa] =
                       IF IsIdent(m) THEN StoreCallsign(@, get_callsign(m)) ELSE @],
            sq |-> [icao_callsigns.sq EXCEPT ![aa] = StoreSquawk(@, get_squawk(m))],
            modes |-> [icao_callsigns.modes EXCEPT ![aa] =
                       IF IsTargetState(m) /\ IsSome(sel)
                       THEN UnionModes(@, Val(sel)[2]) ELSE @]]
    \* per-category timestamp lists
    /\ icao_airborne_pos_ts' =
           AppendIf(TcReturned(m) /\ (TcIn(m, 9, 18) \/ TcIn(m, 20, 22)),
                    icao_airborne_pos_ts, aa, t)
    /\ icao_surface_pos_ts' =
           AppendIf(TcReturned(m) /\ TcIn(m, 5, 8), icao_surface_pos_ts, aa, t)
    /\ icao_ident_timestamps' =
           AppendIf(TcReturned(m) /\ TcIn(m, 1, 4), icao_ident_timestamps, aa, t)
    /\ icao_speed_ts' =
           AppendIf(TcReturned(m) /\ TcIn(m, 19, 19), icao_speed_ts, aa, t)
    /\ icao_status_ts' =
           AppendIf(TcReturned(m) /\ TcIn(m, 28, 28), icao_status_ts, aa, t)
    /\ icao_target_state_ts' =
           AppendIf(TcReturned(m) /\ TcIn(m, 29, 29), icao_target_state_ts, aa, t)
    /\ icao_operation_status_ts' =
           AppendIf(TcReturned(m) /\ TcIn(m, 31, 31), icao_operation_status_ts, aa, t)
    \* CPR pairing
    /\ cpr_messages' = [cpr_messages EXCEPT ![aa] = SlotsAfter(slots, m, t, pos)]
    /\ icao_positions' =
           AppendIf(ResolveAttempted(slots, m, t) /\ pos = "pos",
                    icao_positions, aa,
                    PositionSample(t, Val(SlotsAfterStore(slots, m, t)[1]).t,
                                   Val(SlotsAfterStore(slots, m, t)[2]).t))
    \* velocity, course, altitude difference and GNSS altitude
    /\ icao_speed' =
           IF IsVelocity(m) THEN AppendOpt(icao_speed, aa, t, get_velocity(m))
           ELSE icao_speed
    /\ icao_courses' =
           IF IsVelocity(m) THEN AppendOpt(icao_courses, aa, t, get_course(m))
           ELSE icao_courses
    /\ icao_altitude_difference' =
           IF IsVelocity(m)
           THEN AppendOpt(icao_altitude_difference, aa, t, get_altitude_difference(m))
           ELSE icao_altitude_difference
    /\ icao_gnss_altitude' =
           AppendIf(IsSome(GnssSample(current_baro_buffer[aa], m, t)),
                    icao_gnss_altitude, aa, Val(GnssSample(current_baro_buffer[aa], m, t)))
    \* autopilot target state
    /\ icao_selected_altitude' =
           AppendIf(IsTargetState(m) /\ IsSome(sel),
                    icao_selected_altitude, aa, <<t, Val(sel)[1]>>)
    /\ icao_has_selected_alt' =
           IF IsTargetState(m) /\ IsSome(sel)
           THEN [icao_has_selected_alt EXCEPT ![aa] = TRUE]
           ELSE icao_has_selected_alt
    /\ icao_baro_correction' =
           IF IsTargetState(m)
           THEN AppendOpt(icao_baro_correction, aa, t, get_baro_correction(m))
           ELSE icao_baro_correction
    /\ last' = [kind |-> "ingest", line |-> line, pos |-> pos,
                calls |-> IF ResolveAttempted(slots, m, t) THEN 1 ELSE 0,
                raised |-> Raised(slots, m, t, pos), ver |-> 0,
                before |-> [cs |-> icao_callsigns.cs[aa],
                            sq |-> icao_callsigns.sq[aa],
                            modes |-> icao_callsigns.modes[aa],
                            times |-> icao_times[aa],
                            buf |-> current_baro_buffer[aa],
                            slots |-> slots]]
    /\ trace' = Logged(trace, [kind |-> "ingest", line |-> line, pos |-> pos])
    /\ UNCHANGED <<file_idx, pc, feed, target_icao, data_source, hist, raw_parts, framed, gui, report, outcomes, runs>>

(* ------------------------------------------------------------------ *)
(* The file loop                                                       *)
(* ------------------------------------------------------------------ *)
NextFile_AbortOnError(outcome, step) ==
    /\ file_idx' = file_idx + 1
    /\ pc' = IF file_idx + 1 > MaxFiles \/ outcome # "ok" THEN "done" ELSE "read"
    /\ outcomes' = Append(outcomes, outcome)
    /\ FreshFile
    /\ last' = step
    /\ UNCHANGED <<lines_total, feed, target_icao, data_source, hist, raw_parts, framed, gui, runs>>

\* The next iteration of "for file_path in files_to_process".
NextFile(outcome, step) ==
    /\ file_idx' = file_idx + 1
    /\ pc' = IF file_idx + 1 > MaxFiles THEN "done" ELSE "read"
    /\ outcomes' = Append(outcomes, outcome)
    /\ FreshFile
    /\ last' = step
    /\ UNCHANGED <<lines_total, feed, target_icao, data_source, hist, raw_parts, framed, gui, runs>>

\* open() raises FileNotFoundError: "except FileNotFoundError".
FileNotFound ==
    /\ pc = "read" /\ file_idx <= MaxFiles /\ line_num = 0
    /\ NextFile("notfound", [NoStep EXCEPT !.kind = "notfound"])

\* Reading the file raises (an I/O or decoding error): "except Exception".
ReadError ==
    /\ pc = "read" /\ file_idx <= MaxFiles
    /\ NextFile("critical", [NoStep EXCEPT !.kind = "readerror"])

\* End of the file: the capability filter and the summary.
EndOfFile ==
    /\ pc = "read" /\ file_idx <= MaxFiles
    /\ pc' = "visual"
    /\ total_icao_count' = Cardinality(adsb_icao_list)
    /\ adsb_icao_list' = {icao \in adsb_icao_list : HasAdsbLabel(icao_dfs[icao])}
    /\ filtered_count' = Cardinality(adsb_icao_list) - Cardinality(adsb_icao_list')
    /\ rows' = ReportRows(adsb_icao_list', icao_times)
    /\ last' = [NoStep EXCEPT !.kind = "report"]
    /\ runs' = Logged(runs, [trace |-> trace,
                             result |-> <<adsb_icao_list', icao_dfs, icao_times,
                                          series, icao_callsigns, ts_lists,
                                          icao_df11_ts>>])
    /\ UNCHANGED trace
    /\ UNCHANGED <<file_idx, line_num, lines_total, feed, target_icao, data_source, hist, raw_parts, framed, gui, icao_dfs, icao_times, series,
                   icao_has_selected_alt, icao_callsigns, cpr_messages,
                   current_baro_buffer, ts_lists, icao_df11_ts, seen_ts, seen_dfs, cpr_use,
                   outcomes>>

IcaoList_AllWithData(ver) ==
    LET Keys(dict) == {a \in Icaos : dict[a] # <<>>}
        icao_with_data ==
            Keys(icao_altitude) \cup Keys(icao_speed) \cup Keys(icao_positions)
                \cup Keys(icao_courses) \cup Keys(icao_gnss_altitude)
                \cup (IF ver = 1
                      THEN Keys(icao_airborne_pos_ts) \cup Keys(icao_df11_ts)
                      ELSE {})
    IN  SelectSeq(SortedIcaos, LAMBDA a : a \in icao_with_data)

\* self.icao_list of IcaoGraphs.__init__ for the arguments of the main
\* routine: sorted(list(icao_with_data.intersection(adsb_icao_list)))
IcaoList(ver) ==
    LET Keys(dict) == {a \in Icaos : dict[a] # <<>>}
        icao_with_data ==
            Keys(icao_altitude) \cup Keys(icao_speed) \cup Keys(icao_positions)
                \cup Keys(icao_courses) \cup Keys(icao_gnss_altitude)
                \cup (IF ver = 1
                      THEN Keys(icao_airborne_pos_ts) \cup Keys(icao_df11_ts)
                      ELSE {})
    IN  SelectSeq(SortedIcaos, LAMBDA a : a \in icao_with_data \cap adsb_icao_list)

\* plot_current in the all-tracks view: the aircraft whose track is drawn
DrawnTracks(ver) ==
    {track_icao \in {a \in Icaos : icao_positions[a] # <<>>} :
        \E i \in 1..Len(IcaoList(ver)) : IcaoList(ver)[i] = track_icao}

\* Number of parameters of IcaoGraphs.__init__ besides self, and the number
\* of arguments the main routine passes.
IcaoGraphsParams(ver) == IF ver = 1 THEN 18 ELSE 10
IcaoGraphsArgs == 18

\* IcaoGraphs(...): a call with the wrong number of arguments raises
\* TypeError, which "except Exception" reports as a critical error.
Visualize(ver) ==
    /\ pc = "visual"
    /\ NextFile(IF IcaoGraphsParams(ver) = IcaoGraphsArgs THEN "ok" ELSE "critical",
                [NoStep EXCEPT !.kind = "visual", !.ver = ver])

Next ==
    \/ \E raw \in RawLines : SkipLine(raw)
    \/ \E line \in feed : SkipOtherAircraft(line)
    \/ \E line \in feed :
           \E pos \in PosOutcomesFor(cpr_messages[line.aa], line.msg, line.t) :
               Ingest(line, pos)
    \/ FileNotFound
    \/ ReadError
    \/ EndOfFile
    \/ \E ver \in Versions : Visualize(ver)

Spec == Init /\ [][Next]_vars

\* The user selects a histogram mode: update_plot calls _plot_histogram.
PlotHistogram(mode) ==
    /\ hist' = Analysis(data_source, ModeParams(mode).center, ModeParams(mode).dev)
    /\ UNCHANGED <<file_idx, pc, line_num, lines_total, feed, target_icao,
                   aggregate, report, outcomes, last, trace, runs, data_source,
                   raw_parts, framed, gui>>

\* The timestamp lists an IcaoGraphs object may hold for the aircraft and
\* mode shown: absent, or up to MaxStamps timestamps, in the order of the
\* log when its clock runs forward and in the reverse order when it runs
\* backward (repeated timestamps included).
StampLists ==
    LET Forward(l) == \A i \in 1..(Len(l) - 1) : ~WLess(l[i + 1], l[i])
        Backward(l) == \A i \in 1..(Len(l) - 1) : ~WLess(l[i], l[i + 1])
    IN  {None} \cup {Some(l) : l \in {m \in UNION {[1..n -> Stamps] : n \in 0..MaxStamps} :
                                        Forward(m) \/ Backward(m)}}

InitTiming ==
    /\ InitFiles /\ feed = CprFeed /\ target_icao = None
    /\ data_source \in StampLists
    /\ hist = NoPlot
    /\ raw_parts = <<>> /\ framed = NoFrame
    /\ icao_list = <<>> /\ plot_modes = <<>>
    /\ icao_index = 0 /\ plot_mode_idx = 0
    /\ shown = [icao |-> 0, mode |-> ""]
    /\ streak = [handler |-> "", count |-> 0, start |-> <<0, 0>>, before |-> <<0, 0>>]

NextTiming == \E mode \in HistModes : PlotHistogram(mode)

SpecTiming == InitTiming /\ [][NextTiming]_vars

DecoderInput_FromContainer(parsed) ==
    IF 2 * parsed.message_length < Len(parsed.message_str)
    THEN SubSeq(parsed.message_str, 1, 2 * parsed.message_length)
    ELSE parsed.message_str

\* msg, message_spaced, message_str = parsed; pms.icao(message_str),
\* pms.df(message_str) and every decoder.get_...(message_str)
DecoderInput(parsed) == parsed.message_str

\* The line framer on its own: one line of tokens is framed and, when it is
\* accepted, its hex string is handed to the decoder.
FrameLine ==
    /\ ~framed.done
    /\ framed' = [done |-> TRUE, result |-> parse_ads_b_line(raw_parts),
                  handed |-> IF parse_ads_b_line(raw_parts) = None THEN None
                             ELSE Some(DecoderInput(Val(parse_ads_b_line(raw_parts))))]
    /\ UNCHANGED <<file_idx, pc, line_num, lines_total, feed, target_icao,
                   aggregate, report, outcomes, last, trace, runs, data_source,
                   hist, raw_parts, gui>>

\* The tokens of the lines framed: a timestamp, the DF/UF column in three
\* spellings, hex tokens of 1, 2 and 62 digits; a line has up to MaxTokens.
Tokens ==
    {<<"1", "0", "0">>, <<"D", "F">>, <<"d", "f">>, <<"U", "F">>,
     <<"8", "d">>, <<"8">>, [i \in 1..62 |-> "A"]}

InitFramer ==
    /\ InitFiles /\ feed = CprFeed /\ target_icao = None
    /\ data_source = None /\ hist = NoPlot
    /\ raw_parts \in UNION {[1..n -> Tokens] : n \in 0..MaxTokens}
    /\ framed = NoFrame
    /\ icao_list = <<>> /\ plot_modes = <<>>
    /\ icao_index = 0 /\ plot_mode_idx = 0
    /\ shown = [icao |-> 0, mode |-> ""]
    /\ streak = [handler |-> "", count |-> 0, start |-> <<0, 0>>, before |-> <<0, 0>>]

SpecFramer == InitFramer /\ [][FrameLine]_vars

(* ------------------------------------------------------------------ *)
(* Navigation of the presentation layer (IcaoGraphs)                   *)
(* ------------------------------------------------------------------ *)
\* self.plot_modes
PlotModes(ver) ==
    <<"all_tracks", "altitude", "gnss_altitude", "speed",
      "altitude_speed_combined", "latitude", "course", "track",
      "altitude_diff", "baro_correction">>
    \o (IF ver = 1
        THEN <<"df11_msg_intervals", "reg05_msg_intervals", "reg06_msg_intervals",
               "reg08_msg_intervals", "reg09_msg_intervals", "reg61_msg_intervals",
               "reg62_msg_intervals", "reg65_msg_intervals">>
        ELSE <<>>)

\* (index + 1) % len(...)
NextIndex(index, length) == (index + 1) % length

PrevIndex_Unwrapped(index, length) == index - 1

\* (index - 1 + len(...)) % len(...)
PrevIndex(index, length) == (index - 1 + length) % length

\* icao = self.icao_list[self.icao_index],
\* mode = self.plot_modes[self.plot_mode_idx]
plot_current(index, mode_idx) ==
    IF index \in 0..(Len(icao_list) - 1) /\ mode_idx \in 0..(Len(plot_modes) - 1)
    THEN [icao |-> icao_list[index + 1], mode |-> plot_modes[mode_idx + 1]]
    ELSE [icao |-> 0, mode |-> "IndexError"]

\* everything the file loop, the analyser and the framer hold
batch ==
    <<file_idx, pc, line_num, lines_total, feed, target_icao, aggregate, report,
      outcomes, last, trace, runs, data_source, hist, raw_parts, framed>>

\* The run of equal events after one more call of handler, whose index
\* cycles through cycle entries.
Repeated(handler, cycle) ==
    IF streak.handler = handler /\ streak.count < cycle
    THEN [streak EXCEPT !.count = @ + 1, !.before = <<icao_index, plot_mode_idx>>]
    ELSE [handler |-> handler, count |-> 1,
          start |-> <<icao_index, plot_mode_idx>>,
          before |-> <<icao_index, plot_mode_idx>>]

next_icao ==
    /\ icao_list # <<>>
    /\ icao_index' = NextIndex(icao_index, Len(icao_list))
    /\ shown' = plot_current(icao_index', plot_mode_idx)
    /\ streak' = Repeated("next_icao", Len(icao_list))
    /\ UNCHANGED <<batch, icao_list, plot_modes, plot_mode_idx>>

prev_icao ==
    /\ icao_list # <<>>
    /\ icao_index' = PrevIndex(icao_index, Len(icao_list))
    /\ shown' = plot_current(icao_index', plot_mode_idx)
    /\ streak' = Repeated("prev_icao", Len(icao_list))
    /\ UNCHANGED <<batch, icao_list, plot_modes, plot_mode_idx>>

next_mode ==
    /\ icao_list # <<>>
    /\ plot_mode_idx' = NextIndex(plot_mode_idx, Len(plot_modes))
    /\ shown' = plot_current(icao_index, plot_mode_idx')
    /\ streak' = Repeated("next_mode", Len(plot_modes))
    /\ UNCHANGED <<batch, icao_list, plot_modes, icao_index>>

prev_mode ==
    /\ icao_list # <<>>
    /\ plot_mode_idx' = PrevIndex(plot_mode_idx, Len(plot_modes))
    /\ shown' = plot_current(icao_index, plot_mode_idx')
    /\ streak' = Repeated("prev_mode", Len(plot_modes))
    /\ UNCHANGED <<batch, icao_list, plot_modes, icao_index>>

\* A key press: the four arrow keys navigate, any other key does nothing.
on_key(key) ==
    \/ key = "right" /\ next_icao
    \/ key = "left" /\ prev_icao
    \/ key = "up" /\ next_mode
    \/ key = "down" /\ prev_mode
    \/ /\ key \notin {"right", "left", "up", "down"}
       /\ streak' = [Repeated("on_key", 0) EXCEPT !.count = 0]
       /\ UNCHANGED <<batch, icao_list, plot_modes, icao_index, plot_mode_idx, shown>>

\* The mouse wheel: the limits of the axes change, the indices do not.
on_scroll(inaxes, button) ==
    /\ streak' = [Repeated("on_scroll", 0) EXCEPT !.count = 0]
    /\ UNCHANGED <<batch, icao_list, plot_modes, icao_index, plot_mode_idx, shown>>

\* An IcaoGraphs object right after its construction: 1..MaxAircraft
\* aircraft with data, the first aircraft and the first view shown.
InitNav ==
    /\ InitFiles /\ feed = CprFeed /\ target_icao = None
    /\ data_source = None /\ hist = NoPlot
    /\ raw_parts = <<>> /\ framed = NoFrame
    /\ \E n \in 1..MaxAircraft : icao_list = [i \in 1..n |-> i]
    /\ \E ver \in Versions : plot_modes = PlotModes(ver)
    /\ icao_index = 0 /\ plot_mode_idx = 0
    /\ shown = [icao |-> 1, mode |-> "all_tracks"]
    /\ streak = [handler |-> "", count |-> 0, start |-> <<0, 0>>, before |-> <<0, 0>>]

\* The buttons, the keyboard and the mouse wheel.
NextNav ==
    \/ next_icao
    \/ prev_icao
    \/ next_mode
    \/ prev_mode
    \/ \E key \in {"right", "left", "up", "down", "escape"} : on_key(key)
    \/ \E inaxes \in BOOLEAN, button \in {"up", "down", "other"} :
           on_scroll(inaxes, button)

SpecNav == InitNav /\ [][NextNav]_vars

(* ------------------------------------------------------------------ *)
(* Specifications: one per kind of log                                 *)
(* ------------------------------------------------------------------ *)
InitCpr == Init /\ feed = CprFeed
SpecCpr == InitCpr /\ [][Next]_vars

InitFusion == Init /\ feed = FusionFeed
SpecFusion == InitFusion /\ [][Next]_vars

InitIdent == Init /\ feed = IdentFeed
SpecIdent == InitIdent /\ [][Next]_vars

InitSquawk == Init /\ feed = SquawkFeed
SpecSquawk == InitSquawk /\ [][Next]_vars

InitWatermark == Init /\ feed = WatermarkFeed
SpecWatermark == InitWatermark /\ [][Next]_vars

InitPlausibility == Init /\ feed = PlausibilityFeed
SpecPlausibility == InitPlausibility /\ [][Next]_vars

InitError == Init /\ feed = ErrorFeed
SpecError == InitError /\ [][Next]_vars

InitFilter == Init /\ feed = FilterFeed
SpecFilter == InitFilter /\ [][Next]_vars

InitMode == Init /\ feed = ModeFeed
SpecMode == InitMode /\ [][Next]_vars

InitReplay == Init /\ feed = ReplayFeed
SpecReplay == InitReplay /\ [][Next]_vars

InitIsolation == Init /\ feed = IsolationFeed
SpecIsolation == InitIsolation /\ [][Next]_vars

InitCategory == Init /\ feed = CategoryFeed
SpecCategory == InitCategory /\ [][Next]_vars

InitPair == Init /\ feed = PairFeed
SpecPair == InitPair /\ [][Next]_vars

(* ------------------------------------------------------------------ *)
(* Properties                                                          *)
(* ------------------------------------------------------------------ *)
\* The step just taken ingested an airborne-position frame (type code
\* 9..18) whose parity was read, i.e. the frame was stored.
StepStoredFrame(step) ==
    /\ step.kind = "ingest"
    /\ step.line.msg.df \in {17, 18}
    /\ IsSome(step.line.msg.tc)
    /\ 9 <= Val(step.line.msg.tc) /\ Val(step.line.msg.tc) <= 18
    /\ IsSome(step.line.msg.oe)

\* The slots of an aircraft once the frame of the step is stored in them.
StoredInto(slots, step) ==
    [slots EXCEPT ![Val(step.line.msg.oe) + 1] =
        Some([msg |-> step.line.msg, t |-> step.line.t])]

SlotGap(slots) == Abs(Val(slots[1]).t - Val(slots[2]).t)

\* C1: whenever an airborne-position frame is stored and both slots of the
\* aircraft are then populated with |t_even - t_odd| < 10, position
\* resolution is invoked exactly once for that message and both slots are
\* empty when the message has been processed, whatever resolution does
\* (a position, nothing, or an exception).
C1_InWindowPairResolvedAndCleared ==
    (StepStoredFrame(last)
        /\ IsSome(StoredInto(last.before.slots, last)[1])
        /\ IsSome(StoredInto(last.before.slots, last)[2])
        /\ SlotGap(StoredInto(last.before.slots, last)) < 10)
    => (last.calls = 1 /\ cpr_messages[last.line.aa] = <<None, None>>)

StepDiffReport(step) ==
    /\ step.kind = "ingest"
    /\ step.line.msg.df \in {17, 18}
    /\ step.line.msg.tc = Some(19)
    /\ IsSome(step.line.msg.diff)
    /\ -2500 <= Val(step.line.msg.diff) /\ Val(step.line.msg.diff) <= 2500

\* C3: an altitude-difference report processed while the aircraft has no
\* stored barometric altitude appends the difference sample and appends
\* nothing to the GNSS-derived altitude series.
C3_NoBaroNoGnss ==
    [][(StepDiffReport(last') /\ icao_altitude[last'.line.aa] = <<>>)
       => (/\ icao_altitude_difference'[last'.line.aa] =
                  Append(icao_altitude_difference[last'.line.aa],
                         <<last'.line.t, Val(last'.line.msg.diff)>>)
           /\ icao_gnss_altitude' = icao_gnss_altitude)]_vars

C3_Witness ==
    /\ StepDiffReport(last)
    /\ icao_altitude[last.line.aa] = <<>>
    /\ last.before.buf = None
    /\ icao_altitude_difference[last.line.aa] # <<>>
    /\ icao_gnss_altitude[last.line.aa] = <<>>

\* C4: for an in-range altitude-difference report d at timestamp t, when the
\* baro buffer holds (tb, a), exactly one GNSS-derived sample (t, a + d) is
\* appended iff |t - tb| < 5; with |t - tb| >= 5 (6, and exactly 5) nothing
\* is appended to the GNSS-derived series.
C4_FusionWindow ==
    [][(StepDiffReport(last') /\ IsSome(current_baro_buffer[last'.line.aa]))
       => icao_gnss_altitude' =
            IF Abs(last'.line.t - Val(current_baro_buffer[last'.line.aa])[1]) < 5
            THEN [icao_gnss_altitude EXCEPT ![last'.line.aa] =
                    Append(@, <<last'.line.t,
                                Val(current_baro_buffer[last'.line.aa])[2]
                                    + Val(last'.line.msg.diff)>>)]
            ELSE icao_gnss_altitude]_vars

\* buffer (100, 35000), report at t = 104 with d = +50 gives (104, 35050)
C4_Witness ==
    /\ StepDiffReport(last)
    /\ last.line.t = 104 /\ last.line.msg.diff = Some(50)
    /\ last.before.buf = Some(<<100, 35000>>)
    /\ icao_gnss_altitude[last.line.aa] = <<<<104, 35050>>>>

\* The sanitized callsign an identification message (type code 1..4)
\* carries: None when the decoder gives none or an empty one.
StepCallsign(step) ==
    IF /\ step.line.msg.df \in {17, 18}
       /\ IsSome(step.line.msg.tc)
       /\ 1 <= Val(step.line.msg.tc) /\ Val(step.line.msg.tc) <= 4
       /\ IsSome(step.line.msg.cs) /\ Val(step.line.msg.cs) # <<>>
    THEN Some(SelectSeq(Val(step.line.msg.cs), LAMBDA c : c \in AlnumChars))
    ELSE None

SeqMin(s) == CHOOSE x \in {s[i] : i \in 1..Len(s)} : \A j \in 1..Len(s) : x <= s[j]
SeqMax(s) == CHOOSE x \in {s[i] : i \in 1..Len(s)} : \A j \in 1..Len(s) : x >= s[j]
NonDecreasing(s) == \A i \in 1..(Len(s) - 1) : s[i] <= s[i + 1]

\* C6 as stated: first-seen is the minimum and last-seen the maximum
\* timestamp of all identified messages of the aircraft, in any arrival
\* order, so first-seen <= last-seen.
C6_WatermarkIsMinMax ==
    \A a \in Icaos :
        seen_ts[a] # <<>>
        => /\ icao_times[a] =
                Some([first |-> SeqMin(seen_ts[a]), last |-> SeqMax(seen_ts[a])])
           /\ Val(icao_times[a]).first <= Val(icao_times[a]).last

\* C6 as amended: first-seen is the timestamp of the first identified
\* message of the aircraft and last-seen that of the most recent one, in
\* arrival order; they are the minimum and the maximum when the timestamps
\* of the aircraft arrive in non-decreasing order.
C6_WatermarkIsFirstAndLatest ==
    \A a \in Icaos :
        /\ seen_ts[a] = <<>> => icao_times[a] = None
        /\ seen_ts[a] # <<>>
           => /\ icao_times[a] =
                   Some([first |-> seen_ts[a][1], last |-> seen_ts[a][Len(seen_ts[a])]])
              /\ NonDecreasing(seen_ts[a])
                 => icao_times[a] =
                      Some([first |-> SeqMin(seen_ts[a]), last |-> SeqMax(seen_ts[a])])

C6_Witness ==
    \E a \in Icaos :
        /\ seen_ts[a] = <<104, 100>>
        /\ icao_times[a] = Some([first |-> 104, last |-> 100])

\* Every stored value of the four range-checked series lies in its range.
C7_Ranges ==
    \A a \in Icaos :
        /\ \A i \in 1..Len(icao_altitude[a]) :
               -2000 <= icao_altitude[a][i][2] /\ icao_altitude[a][i][2] <= 60000
        /\ \A i \in 1..Len(icao_altitude_difference[a]) :
               /\ -2500 <= icao_altitude_difference[a][i][2]
               /\ icao_altitude_difference[a][i][2] <= 2500
        /\ \A i \in 1..Len(icao_selected_altitude[a]) :
               /\ -2000 <= icao_selected_altitude[a][i][2]
               /\ icao_selected_altitude[a][i][2] <= 50000
        /\ \A i \in 1..Len(icao_baro_correction[a]) :
               /\ 800 <= icao_baro_correction[a][i][2]
               /\ icao_baro_correction[a][i][2] <= 1100

Outside(o, lo, hi) == IsSome(o) /\ (Val(o) < lo \/ Val(o) > hi)

\* the message of the step carries a barometric altitude the code reads
StepHasAltitude(step) ==
    \/ step.line.msg.df \in {0, 4, 16, 20}
    \/ step.line.msg.df \in {17, 18} /\ IsSome(step.line.msg.tc)
       /\ 9 <= Val(step.line.msg.tc) /\ Val(step.line.msg.tc) <= 18

StepIsAdsbType(step, tc) ==
    step.line.msg.df \in {17, 18} /\ step.line.msg.tc = Some(tc)

\* C7: every stored barometric altitude lies in [-2000, 60000], every
\* altitude difference in [-2500, 2500], every selected altitude in
\* [-2000, 50000] and every baro-pressure setting in [800, 1100]; a decoded
\* value outside its range changes no series and raises nothing.
C7_PlausibleSeries ==
    [][/\ C7_Ranges'
       /\ last'.kind = "ingest"
          => /\ (StepHasAltitude(last') /\ Outside(last'.line.msg.alt, -2000, 60000))
                => /\ icao_altitude' = icao_altitude
                   /\ current_baro_buffer' = current_baro_buffer
                   /\ last'.raised => last'.pos = "raise"
             /\ (StepIsAdsbType(last', 19) /\ Outside(last'.line.msg.diff, -2500, 2500))
                => /\ icao_altitude_difference' = icao_altitude_difference
                   /\ icao_gnss_altitude' = icao_gnss_altitude
                   /\ ~last'.raised
             /\ (StepIsAdsbType(last', 29) /\ IsSome(last'.line.msg.sel)
                   /\ (Val(last'.line.msg.sel)[1] < -2000
                       \/ Val(last'.line.msg.sel)[1] > 50000))
                => /\ icao_selected_altitude' = icao_selected_altitude
                   /\ icao_has_selected_alt' = icao_has_selected_alt
                   /\ ~last'.raised
             /\ (StepIsAdsbType(last', 29) /\ Outside(last'.line.msg.baro, 800, 1100))
                => /\ icao_baro_correction' = icao_baro_correction
                   /\ ~last'.raised]_vars

C7_Witness ==
    /\ last.kind = "ingest"
    /\ last.line.msg.df = 4 /\ last.line.msg.alt = Some(60001)
    /\ icao_altitude[last.line.aa] = <<<<100, -2000>>>>
    /\ current_baro_buffer[last.line.aa] = Some(<<100, -2000>>)

\* a squawk is four octal digits
SquawkInRange(s) == Len(s) = 4 /\ \A i \in 1..Len(s) : s[i] \in 0..7

C9_RaisedMessageLeavesNoTrace ==
    [][(last'.kind = "ingest" /\ last'.raised)
       => (/\ series' = series
           /\ ts_lists' = ts_lists
           /\ cpr_messages' = cpr_messages
           /\ current_baro_buffer' = current_baro_buffer)]_vars

\* C10: after a line that is malformed, whose address or format extraction
\* fails, or whose field decoding raises, the loop is at the next line of
\* the same file; a file that ends with an error is followed by the next
\* file of the list, and the run ends only when every file has been taken.
C10_FailuresDoNotAbort ==
    [][/\ (\/ last'.kind \in {"malformed", "unidentified"}
           \/ last'.kind = "ingest" /\ last'.raised)
          => /\ pc' = "read"
             /\ file_idx' = file_idx
             /\ line_num' = line_num + 1
             /\ outcomes' = outcomes
       /\ last'.kind \in {"notfound", "readerror", "visual"}
          => /\ file_idx' = file_idx + 1
             /\ Len(outcomes') = file_idx
             /\ file_idx' <= MaxFiles => (pc' = "read" /\ line_num' = 0)
       /\ pc' = "done" => (file_idx' = MaxFiles + 1 /\ Len(outcomes') = MaxFiles)]_vars

C10_Witness ==
    /\ outcomes = <<"critical">>
    /\ pc = "read"
    /\ line_num = 1
    /\ last.kind = "ingest" /\ last.raised

Discovered == {a \in Icaos : seen_ts[a] # <<>>}

\* C12: when the file has been read, the retained set is exactly the set
\* of discovered aircraft with at least one identified message of format
\* 17 or 18; an aircraft whose label set is {DF4(S), DF5(S)} is excluded
\* and one whose label set is {DF17(L)} is retained; the summary counts
\* the discovered and the excluded aircraft.
C12_CapabilityFilter ==
    pc = "visual"
    => /\ adsb_icao_list = {a \in Discovered : seen_dfs[a] \cap {17, 18} # {}}
       /\ \A a \in Discovered :
              /\ icao_dfs[a] = {[df |-> 4, len |-> "S"], [df |-> 5, len |-> "S"]}
                 => a \notin adsb_icao_list
              /\ icao_dfs[a] = {[df |-> 17, len |-> "L"]} => a \in adsb_icao_list
       /\ total_icao_count = Cardinality(Discovered)
       /\ filtered_count = Cardinality(Discovered \ adsb_icao_list)

\* one aircraft seen only through DF4 and DF5 replies: excluded
C12_Witness ==
    /\ pc = "visual"
    /\ \E a \in Discovered :
           /\ icao_dfs[a] = {[df |-> 4, len |-> "S"], [df |-> 5, len |-> "S"]}
           /\ a \notin adsb_icao_list
    /\ total_icao_count = 1
    /\ filtered_count = 1

\* How often the value x occurs in a sequence of intervals.
Occurrences(seq, x) == Cardinality({i \in 1..Len(seq) : seq[i] = x})

\* C13: for target T = center and tolerance H = dev every retained
\* interval x is counted in exactly one band: in-range iff
\* T - H <= x <= T + H, too-frequent iff x < T - H, too-infrequent iff
\* x > T + H; both bounds of the in-range band are inclusive.
C13_BandPartition ==
    hist.outcome = "plotted" =>
        LET low == WInt(hist.center - hist.dev)
            high == WInt(hist.center + hist.dev)
        IN  /\ Len(hist.middle) + Len(hist.left) + Len(hist.right)
                  = Len(hist.intervals)
            /\ \A i \in 1..Len(hist.intervals) :
                   LET x == hist.intervals[i]
                       n == Occurrences(hist.intervals, x)
                       below == WLess(x, low)
                       above == WLess(high, x)
                   IN  /\ Occurrences(hist.middle, x)
                              = (IF ~below /\ ~above THEN n ELSE 0)
                       /\ Occurrences(hist.left, x) = (IF below THEN n ELSE 0)
                       /\ Occurrences(hist.right, x) = (IF above THEN n ELSE 0)

\* timestamps 0.0, 0.0, 0.6, 1.0, 1.6 against 500 +- 100 ms: 0 is too
\* frequent, 600 and 400 lie on the two bounds and are in range,
\* 600.0000000000001 is too infrequent
C13_Witness ==
    /\ hist.outcome = "plotted"
    /\ hist.center = 500 /\ hist.dev = 100
    /\ hist.left = <<WZero>>
    /\ hist.middle = <<WInt(600), WInt(400)>>
    /\ hist.right = << <<131072, 0, 0, 600>> >>

\* The worked example: timestamps 0.0, 0.5, 1.0, 1.6 analysed against
\* 500 +- 100 ms.
C14_Example ==
    /\ data_source = Some(<<Stamp00, Stamp05, Stamp10, Stamp16>>)
    /\ hist.outcome = "plotted"
    /\ hist.center = 500 /\ hist.dev = 100

\* C14 as stated: in the worked example the intervals are 500, 500 and
\* 600 ms and the result is 2 in-range, 1 too-infrequent, 0 too-frequent.
C14_WorkedExampleExact ==
    C14_Example =>
        /\ hist.intervals = <<WInt(500), WInt(500), WInt(600)>>
        /\ Len(hist.middle) = 2 /\ Len(hist.right) = 1 /\ Len(hist.left) = 0

\* C14 as amended: in the worked example the intervals are 500, 500 and
\* 600.0000000000001 ms (the float64 difference 1.6 - 1.0 times 1000 lies
\* one unit in the last place above 600), and the result is 2 in-range,
\* 1 too-infrequent, 0 too-frequent.
C14_WorkedExample ==
    C14_Example =>
        /\ hist.intervals = <<WInt(500), WInt(500), <<131072, 0, 0, 600>> >>
        /\ hist.middle = <<WInt(500), WInt(500)>>
        /\ hist.right = << <<131072, 0, 0, 600>> >>
        /\ hist.left = <<>>

\* the worked example has been analysed
C14_Witness == C14_Example /\ Len(hist.right) = 1

\* C15 as stated: the analysis proceeds only when a strictly positive
\* interval remains; otherwise (for example all timestamps equal) the
\* outcome is "no valid intervals" and no band is counted.
C15_PositiveIntervalRequired ==
    /\ hist.outcome = "plotted"
           => \E i \in 1..Len(hist.intervals) : hist.intervals[i] # WZero
    /\ hist.outcome = "no valid intervals"
           => hist.middle = <<>> /\ hist.left = <<>> /\ hist.right = <<>>

\* C15 as amended: the differences are taken of the sorted timestamps and
\* those >= 0 are retained, zero included; a list of at least 2 timestamps
\* is always analysed, with one interval per consecutive pair; an interval
\* of 0 ms (equal timestamps) is retained and counted as too frequent, so
\* a list of equal timestamps is analysed and not reported as "no valid
\* intervals".
C15_NonNegativeIntervalsRetained ==
    (/\ hist.outcome # "none"
     /\ IF data_source = None THEN FALSE ELSE Len(Val(data_source)) >= 2)
        => LET data == Val(data_source)
               zeros == Len(data) - Cardinality({data[i] : i \in 1..Len(data)})
           IN  /\ hist.outcome = "plotted"
               /\ Len(hist.intervals) = Len(data) - 1
               /\ Occurrences(hist.intervals, WZero) = zeros
               /\ Occurrences(hist.left, WZero) = zeros

\* three equal timestamps: two intervals of 0 ms, both too frequent
C15_Witness ==
    /\ data_source = Some(<<Stamp05, Stamp05, Stamp05>>)
    /\ hist.outcome = "plotted"
    /\ hist.intervals = <<WZero, WZero>>
    /\ hist.left = <<WZero, WZero>>

\* C16: when the timestamp list of the selected category is missing or has
\* fewer than 2 timestamps the outcome is "insufficient data": the handler
\* returns with no interval computed and no band counted.
C16_InsufficientData ==
    (/\ hist.outcome # "none"
     /\ IF data_source = None THEN TRUE ELSE Len(Val(data_source)) < 2)
        => /\ hist.outcome = "insufficient data"
           /\ hist.intervals = <<>>
           /\ hist.middle = <<>> /\ hist.left = <<>> /\ hist.right = <<>>
           /\ hist.counts = <<>> /\ hist.left_stats = <<>>

\* a list of one timestamp has been handed to the analyser
C16_Witness ==
    /\ data_source = Some(<<Stamp10>>)
    /\ hist.outcome = "insufficient data"

\* C17: a non-empty too-frequent tail is split into 5 bins; the reported
\* list has at most 3 entries, each a bin with count > 0, in non-increasing
\* count order; no unreported bin has a larger count than a reported one,
\* and bins of equal count are ranked by ascending bin index.
C17_TopOffenders ==
    (hist.outcome = "plotted" /\ hist.left # <<>>) =>
        LET counts == hist.counts
            stats == hist.left_stats
            reported == {stats[n].idx : n \in 1..Len(stats)}
        IN  /\ Len(counts) = 5
            /\ counts[1] + counts[2] + counts[3] + counts[4] + counts[5]
                  = Len(hist.left)
            /\ Len(stats) \in 1..3
            /\ \A n \in 1..Len(stats) :
                   /\ stats[n].idx \in 0..4
                   /\ stats[n].count = counts[stats[n].idx + 1]
                   /\ stats[n].count > 0
            /\ \A n, m \in 1..Len(stats) :
                   n < m => /\ stats[n].idx # stats[m].idx
                            /\ stats[n].count >= stats[m].count
                            /\ stats[n].count = stats[m].count
                                   => stats[n].idx < stats[m].idx
            /\ \A b \in (0..4) \ reported : \A n \in 1..Len(stats) :
                   /\ counts[b + 1] <= stats[n].count
                   /\ counts[b + 1] = stats[n].count => b > stats[n].idx
            /\ Len(stats) < 3 => \A b \in (0..4) \ reported : counts[b + 1] = 0

\* timestamps 0.0, 0.5, 0.6, 1.0, 1.6 against 1000 +- 200 ms: the four
\* intervals fall into bins 3, 0, 2 and 4, and bins 0, 2, 3 are reported
C17_Witness ==
    /\ data_source = Some(<<Stamp00, Stamp05, Stamp06, Stamp10, Stamp16>>)
    /\ hist.outcome = "plotted" /\ hist.center = 1000
    /\ hist.counts = <<1, 0, 1, 1, 1>>
    /\ hist.left_stats = <<[count |-> 1, idx |-> 0], [count |-> 1, idx |-> 2],
                           [count |-> 1, idx |-> 3]>>

\* The per-aircraft state a file starts from: nothing seen, nothing stored.
C18_NothingStored ==
    /\ adsb_icao_list = {}
    /\ \A a \in Icaos :
           /\ icao_dfs[a] = {}
           /\ icao_times[a] = <<>>
           /\ icao_callsigns.cs[a] = <<>> /\ icao_callsigns.sq[a] = <<>>
           /\ icao_callsigns.modes[a] = {}
           /\ cpr_messages[a] = <<(<<>>), (<<>>)>>
           /\ current_baro_buffer[a] = <<>>
           /\ ~icao_has_selected_alt[a]
           /\ icao_df11_ts[a] = <<>>
           /\ \A i \in 1..Len(series) : series[i][a] = <<>>
           /\ \A i \in 1..Len(ts_lists) : ts_lists[i][a] = <<>>

\* C18: two files with the same sequence of lines (and the same decoder
\* results) end with identical aircraft sets, label sets, watermarks,
\* series, callsign / squawk / mode entries and timestamp lists, and every
\* file starts from the empty state whatever the files before it held.
C18_DeterministicPerFile ==
    /\ \A i, j \in 1..Len(runs) :
           runs[i].trace = runs[j].trace => runs[i].result = runs[j].result
    /\ (pc = "read" /\ line_num = 0) => C18_NothingStored

\* the same non-empty file read twice, with something stored each time
C18_Witness ==
    /\ Len(runs) = 2
    /\ runs[1].trace = runs[2].trace
    /\ \E k \in 1..Len(runs[1].trace) : runs[1].trace[k].kind = "ingest"
    /\ runs[1].result = runs[2].result
    /\ runs[2].result[1] # {}

\* The mode labels of a set of decoder mode characters.
C19_Labels(chars) ==
    {CASE c = "U" -> "AP" [] c = "/" -> "ALT" [] c = "M" -> "VNAV"
       [] c = "F" -> "LNAV" [] c = "P" -> "APP" [] c = "T" -> "TCAS"
       [] c = "C" -> "HDG" [] OTHER -> c : c \in chars}

\* the step ingested a target-state message (type code 29) with a selected
\* altitude inside [-2000, 50000], the only message that contributes flags
StepContributesModes(step) ==
    /\ step.kind = "ingest"
    /\ step.line.msg.df \in {17, 18}
    /\ step.line.msg.tc = Some(29)
    /\ IsSome(step.line.msg.sel)
    /\ -2000 <= Val(step.line.msg.sel)[1] /\ Val(step.line.msg.sel)[1] <= 50000

\* C19: a target-state message that contributes mode flags leaves the mode
\* set of its aircraft equal to the union of the previous set and the
\* mapped flags; within a file no step removes an element from a mode set,
\* and flags already in the set leave it unchanged.
C19_ModeUnion ==
    [][/\ StepContributesModes(last')
          => /\ icao_callsigns'.modes[last'.line.aa] =
                    icao_callsigns.modes[last'.line.aa]
                        \cup C19_Labels(Val(last'.line.msg.sel)[2])
             /\ C19_Labels(Val(last'.line.msg.sel)[2])
                    \subseteq icao_callsigns.modes[last'.line.aa]
                => icao_callsigns'.modes = icao_callsigns.modes
       /\ file_idx' = file_idx
          => \A a \in Icaos : icao_callsigns.modes[a] \subseteq icao_callsigns'.modes[a]
       /\ (last'.kind = "ingest" /\ ~StepContributesModes(last'))
          => icao_callsigns'.modes = icao_callsigns.modes]_vars

\* flags U,M then flags /,X of one aircraft: AP, VNAV, ALT and X
C19_Witness ==
    /\ StepContributesModes(last)
    /\ last.before.modes = {"AP", "VNAV"}
    /\ last.line.msg.sel = Some(<<30000, {"/", "X"}>>)
    /\ icao_callsigns.modes[last.line.aa] = {"AP", "VNAV", "ALT", "X"}

\* C20 as stated: every message whose address and format were extracted
\* updates the watermark of its aircraft, creating it on the first one.
C20_EveryIdentifiedMessageUpdatesWatermark ==
    [][last'.kind \in {"ingest", "filtered"}
       => /\ IsSome(icao_times'[last'.line.aa])
          /\ Val(icao_times'[last'.line.aa]).last = last'.line.t]_vars

\* C20 as amended: every identified message that is not dropped by the
\* aircraft selection (no aircraft selected, or the address is the selected
\* one) creates the watermark of its aircraft or moves its last-seen to
\* the timestamp of the message, also when the later field extraction
\* returns nothing or raises; a message of another aircraft than the
\* selected one changes no watermark.
C20_WatermarkIndependentOfDecoding ==
    [][/\ last'.kind = "ingest"
          => /\ target_icao \in {<<>>, <<last'.line.aa>>}
             /\ icao_times'[last'.line.aa] =
                    IF icao_times[last'.line.aa] = <<>>
                    THEN <<[first |-> last'.line.t, last |-> last'.line.t]>>
                    ELSE <<[first |-> icao_times[last'.line.aa][1].first,
                            last |-> last'.line.t]>>
       /\ last'.kind = "filtered"
          => /\ target_icao \notin {<<>>, <<last'.line.aa>>}
             /\ icao_times' = icao_times]_vars

\* a message whose type code extraction raises moves last-seen to 104
C20_Witness ==
    /\ last.kind = "ingest" /\ last.raised
    /\ last.before.times = <<[first |-> 100, last |-> 100]>>
    /\ icao_times[last.line.aa] = <<[first |-> 100, last |-> 104]>>

\* The steps of the line loop: one line of the log has been read.
LineStepKinds == {"blank", "malformed", "unidentified", "filtered", "ingest"}

\* C21: for every series and every per-category timestamp list of every
\* aircraft the value before a line is processed is a prefix of the value
\* after it: samples are appended in arrival order and none is removed,
\* reordered or rewritten, also when timestamps arrive out of order.
C21_SeriesAppendOnly ==
    [][last'.kind \in LineStepKinds
       => LET IsPrefix(s, t) == Len(s) <= Len(t) /\ SubSeq(t, 1, Len(s)) = s
          IN  \A a \in Icaos :
                  /\ \A i \in 1..Len(series) :
                         IsPrefix(series[i][a], series'[i][a])
                  /\ \A i \in 1..Len(ts_lists) :
                         IsPrefix(ts_lists[i][a], ts_lists'[i][a])
                  /\ IsPrefix(icao_df11_ts[a], icao_df11_ts'[a])]_vars

\* a barometric sample of t = 100 has been appended after one of t = 104
C21_Witness ==
    /\ last.kind = "ingest"
    /\ icao_altitude[last.line.aa] = <<(<<104, 35000>>), (<<100, 35000>>)>>

\* C22: while lines are ingested the set of discovered aircraft only
\* grows; every aircraft in it has a watermark and a non-empty label set;
\* and the report has a row for every retained aircraft: the report loop
\* skips none for a missing watermark.
C22_AircraftNeverDeleted ==
    [][/\ last'.kind \in LineStepKinds => adsb_icao_list \subseteq adsb_icao_list'
       /\ \A a \in adsb_icao_list' : icao_times'[a] # None /\ icao_dfs'[a] # {}
       /\ last'.kind = "report"
              => {rows'[i] : i \in 1..Len(rows')} = adsb_icao_list']_vars

\* the second line of the file has added a second aircraft
C22_Witness ==
    /\ pc = "read" /\ line_num = 2
    /\ last.kind = "ingest"
    /\ adsb_icao_list = Icaos
    /\ \A a \in Icaos : icao_times[a] = Some([first |-> 100, last |-> 100])

\* C23: the report has exactly one row per retained aircraft, in ascending
\* ICAO order with no address repeated, and the three printed counts
\* satisfy total discovered = filtered out + retained, with retained equal
\* to the number of rows.
C23_ReportRowsAndCounts ==
    pc = "visual" =>
        LET Rank(a) == CHOOSE i \in 1..Len(SortedIcaos) : SortedIcaos[i] = a
            retained == Cardinality(adsb_icao_list)
        IN  /\ {rows[i] : i \in 1..Len(rows)} = adsb_icao_list
            /\ \A i, j \in 1..Len(rows) : i < j => Rank(rows[i]) < Rank(rows[j])
            /\ Len(rows) = retained
            /\ total_icao_count = filtered_count + retained
            /\ total_icao_count = Cardinality(Discovered)

\* two aircraft retained: two rows, the smaller address first
C23_Witness ==
    /\ pc = "visual"
    /\ rows = <<"4840D6", "A1B2C3">>
    /\ total_icao_count = 2 /\ filtered_count = 0

\* C24: for every accepted line whose concatenated payload has n >= 1
\* hexadecimal digits the framed payload length in bytes is
\* min(ceil(n / 2), 32).
C24_FramedPayloadLength ==
    (framed.done /\ framed.result # None) =>
        LET r == Val(framed.result)
            n == Len(r.message_str)
            half == CHOOSE k \in 0..n : 2 * k >= n /\ 2 * (k - 1) < n
        IN  /\ n >= 1
            /\ r.message_length = (IF half < 32 THEN half ELSE 32)
            /\ Len(r.message) = r.message_length

\* a payload of 62 + 2 + 1 = 65 digits is framed as 32 bytes
C24_Witness ==
    /\ framed.done
    /\ raw_parts = <<(<<"1", "0", "0">>), [i \in 1..62 |-> "A"], (<<"8", "d">>),
                    (<<"8">>)>>
    /\ Len(Val(framed.result).message_str) = 65
    /\ Val(framed.result).message_length = 32

\* C25: the payload tokens start after the second token iff that token is
\* "DF" or "UF" in any letter case and the line has at least 3 tokens,
\* otherwise after the first token; so the line "100 DF" is accepted with
\* the one-byte payload 0xDF and the line "100 UF" is skipped as non-hex.
C25_PayloadStart ==
    framed.done =>
        LET IsColumn(tok) ==
                /\ Len(tok) = 2
                /\ tok[1] \in {"D", "d", "U", "u"}
                /\ tok[2] \in {"F", "f"}
            start == IF Len(raw_parts) >= 3 /\ IsColumn(raw_parts[2])
                     THEN 3 ELSE 2
        IN  /\ framed.result # None
                => Val(framed.result).message_str
                       = JoinUpper(SubSeq(raw_parts, start, Len(raw_parts)))
            /\ raw_parts = <<(<<"1", "0", "0">>), (<<"D", "F">>)>>
                => /\ framed.result # None
                   /\ Val(framed.result).message = <<223>>
            /\ raw_parts = <<(<<"1", "0", "0">>), (<<"U", "F">>)>>
                => framed.result = None

\* the line "100 DF" has been framed: one byte, 0xDF
C25_Witness ==
    /\ framed.done
    /\ raw_parts = <<(<<"1", "0", "0">>), (<<"D", "F">>)>>
    /\ Val(framed.result).message_length = 1
    /\ Val(framed.result).message = <<223>>

\* The step appended a position sample for the aircraft of its line.
StepResolvedPosition(step) == step.kind = "ingest" /\ step.pos = "pos"

\* The timestamp of the buffered frame the line of the step was paired with.
BufferedStamp(step) ==
    Val(step.before.slots[2 - Val(step.line.msg.oe)]).t

\* C26 as stated: every position sample carries max(t_even, t_odd) of the
\* resolved pair, also when the completing frame has the smaller timestamp.
C26_PositionStampIsMax ==
    [][StepResolvedPosition(last')
       => LET sample == icao_positions'[last'.line.aa][Len(icao_positions'[last'.line.aa])]
              tb == BufferedStamp(last')
          IN  sample[1] = (IF last'.line.t > tb THEN last'.line.t ELSE tb)]_vars

\* C26 as amended: every position sample carries the timestamp of the
\* frame that completes the pair, the one that arrived last; this is
\* max(t_even, t_odd) exactly when that frame's timestamp is not smaller
\* than the timestamp of the frame already buffered, and min(t_even, t_odd)
\* otherwise.
C26_PositionStampIsCompletingFrame ==
    [][StepResolvedPosition(last')
       => LET aa == last'.line.aa
              sample == icao_positions'[aa][Len(icao_positions'[aa])]
          IN  /\ icao_positions'[aa] = Append(icao_positions[aa], sample)
              /\ sample[1] = last'.line.t
              /\ Abs(last'.line.t - BufferedStamp(last')) < CPR_WINDOW]_vars

\* a frame of t = 100 completes a pair whose buffered frame has t = 104:
\* the sample is stamped 100
C26_Witness ==
    /\ StepResolvedPosition(last)
    /\ last.line.t = 100
    /\ BufferedStamp(last) = 104
    /\ icao_positions[last.line.aa] = <<(<<100, ResolvedPos[1], ResolvedPos[2]>>)>>

\* C27: an airborne-position frame of parity p sets slot p of its aircraft
\* to the (payload, timestamp) of that frame, whatever the slot held, and
\* leaves slot 1-p as it was: when the pair is not cleared the slots after
\* the message are exactly these, and the pairing check saw slot 1-p as it
\* was before the message.  A slot of parity q only ever holds a frame of
\* parity q, and a position sample is appended only when slot 1-p was
\* populated, so an aircraft sending frames of one parity only never gets
\* a position sample.
C27_SameParityReplacement ==
    [][/\ StepStoredFrame(last')
          => LET aa == last'.line.aa
                 p == Val(last'.line.msg.oe) + 1
                 q == 3 - p
                 frame == Some([msg |-> last'.line.msg, t |-> last'.line.t])
             IN  /\ last'.before.slots = cpr_messages[aa]
                 /\ IF last'.calls = 1 /\ last'.pos # "raise"
                    THEN /\ cpr_messages'[aa] = <<None, None>>
                         /\ IsSome(cpr_messages[aa][q])
                    ELSE /\ cpr_messages'[aa][p] = frame
                         /\ cpr_messages'[aa][q] = cpr_messages[aa][q]
                 /\ last'.calls = 1 => IsSome(cpr_messages[aa][q])
       /\ \A a \in Icaos :
              /\ \A q \in 1..2 :
                     IsSome(cpr_messages'[a][q])
                         => Val(cpr_messages'[a][q]).msg.oe = Some(q - 1)
              /\ (last'.kind \in LineStepKinds
                     /\ icao_positions'[a] # icao_positions[a])
                     => /\ StepStoredFrame(last') /\ last'.line.aa = a
                        /\ IsSome(cpr_messages[a][2 - Val(last'.line.msg.oe)])]_vars

\* an even frame of t = 104 has replaced the even frame of t = 100; the
\* odd slot is still empty and there is no position sample
C27_Witness ==
    /\ StepStoredFrame(last)
    /\ last.line.msg.oe = Some(0) /\ last.line.t = 104
    /\ last.before.slots = <<Some([msg |-> last.line.msg, t |-> 100]), None>>
    /\ cpr_messages[last.line.aa] = <<Some([msg |-> last.line.msg, t |-> 104]), None>>
    /\ icao_positions[last.line.aa] = <<>>

\* C28: for every aircraft the baro buffer is populated iff the
\* barometric series is non-empty, and it then equals the last sample
\* appended to that series, whatever its timestamp.
C28_BaroBufferTracksSeries ==
    \A a \in Icaos :
        IF icao_altitude[a] = <<>>
        THEN current_baro_buffer[a] = None
        ELSE current_baro_buffer[a] = Some(icao_altitude[a][Len(icao_altitude[a])])

\* the buffer holds the sample of t = 100 that arrived after the one of
\* t = 104
C28_Witness ==
    \E a \in Icaos :
        /\ icao_altitude[a] = <<(<<104, 35000>>), (<<100, 35000>>)>>
        /\ current_baro_buffer[a] = Some(<<100, 35000>>)

\* C29: in ver2, after the report of a file that was read to its end, the
\* IcaoGraphs constructor accepts the arguments the main routine passes
\* (the series and the eight timestamp lists) and no critical error is
\* reported for that file.
C29_HandOffAccepted ==
    [][(last'.kind = "visual" /\ last'.ver = 2)
       => /\ IcaoGraphsParams(2) = IcaoGraphsArgs
          /\ outcomes'[Len(outcomes')] = "ok"]_vars

\* C30: at the hand-off the aircraft list the presentation layer navigates
\* holds retained aircraft only and the all-tracks view draws tracks of
\* listed aircraft only; the filter removes aircraft from the retained set
\* and leaves every series and timestamp list, also those of the excluded
\* aircraft, in the aggregate state.
C30_VisualizationRespectsFilter ==
    [][last'.kind = "report"
       => /\ series' = series /\ ts_lists' = ts_lists
          /\ icao_df11_ts' = icao_df11_ts
          /\ \A ver \in Versions :
                 /\ \A i \in 1..Len(IcaoList(ver)') :
                        IcaoList(ver)'[i] \in adsb_icao_list'
                 /\ DrawnTracks(ver)' \subseteq adsb_icao_list'
                 /\ \A a \in DrawnTracks(ver)' :
                        \E i \in 1..Len(IcaoList(ver)') : IcaoList(ver)'[i] = a]_vars

\* one aircraft seen through DF4 only, with a barometric sample, is excluded
\* and not listed; the other, with an airborne position frame, is listed
C30_Witness ==
    /\ pc = "visual"
    /\ \E a, b \in Icaos :
           /\ a \notin adsb_icao_list /\ icao_altitude[a] = <<(<<100, -2000>>)>>
           /\ adsb_icao_list = {b}
           /\ IcaoList(1) = <<b>> /\ IcaoList(2) = <<b>>

\* C31: processing a message of aircraft A changes no series, timestamp
\* list, label set, mode set, callsign, squawk, watermark, CPR slot or baro
\* buffer of an aircraft B # A; a GNSS-derived sample of A is the sum of
\* A's own buffered altitude and A's difference report, and a position
\* sample of A is resolved from a frame buffered for A.
C31_PerAircraftIsolation ==
    [][last'.kind = "ingest"
       => LET A == last'.line.aa
          IN  /\ \A B \in Icaos \ {A} :
                     /\ \A i \in 1..Len(series) : series'[i][B] = series[i][B]
                     /\ \A i \in 1..Len(ts_lists) : ts_lists'[i][B] = ts_lists[i][B]
                     /\ icao_df11_ts'[B] = icao_df11_ts[B]
                     /\ icao_dfs'[B] = icao_dfs[B]
                     /\ icao_times'[B] = icao_times[B]
                     /\ icao_callsigns'.cs[B] = icao_callsigns.cs[B]
                     /\ icao_callsigns'.sq[B] = icao_callsigns.sq[B]
                     /\ icao_callsigns'.modes[B] = icao_callsigns.modes[B]
                     /\ icao_has_selected_alt'[B] = icao_has_selected_alt[B]
                     /\ cpr_messages'[B] = cpr_messages[B]
                     /\ current_baro_buffer'[B] = current_baro_buffer[B]
              /\ icao_gnss_altitude'[A] # icao_gnss_altitude[A]
                     => /\ IsSome(current_baro_buffer[A])
                        /\ icao_gnss_altitude'[A] =
                               Append(icao_gnss_altitude[A],
                                      <<last'.line.t,
                                        Val(current_baro_buffer[A])[2]
                                            + Val(last'.line.msg.diff)>>)
              /\ icao_positions'[A] # icao_positions[A]
                     => IsSome(cpr_messages[A][2 - Val(last'.line.msg.oe)])]_vars

\* B has a fresh baro altitude buffered, A has none: the difference report
\* of A at t = 104 gives A no GNSS-derived sample
C31_Witness ==
    /\ last.kind = "ingest" /\ last.line.t = 104
    /\ IsSome(last.line.msg.diff)
    /\ \E B \in Icaos \ {last.line.aa} :
           current_baro_buffer[B] = Some(<<100, 35000>>)
    /\ current_baro_buffer[last.line.aa] = None
    /\ icao_altitude_difference[last.line.aa] = <<(<<104, 50>>)>>
    /\ icao_gnss_altitude[last.line.aa] = <<>>

\* C32: after any message processed without a decoder exception, an
\* aircraft with both slots populated has |t_even - t_odd| >= 10: no
\* populated pair inside the window is left in the buffer.
C32_NoPairInsideWindow ==
    (last.kind = "ingest" /\ ~last.raised)
        => \A a \in Icaos :
               BothSlots(cpr_messages[a]) => SlotGap(cpr_messages[a]) >= CPR_WINDOW

\* C33: a buffered frame takes part in at most one resolution attempt:
\* for every aircraft the number of position samples is at most the
\* number of resolution attempts, which is at most half the number of
\* type-code 9..18 frames ingested for that aircraft.
C33_FrameUsedAtMostOnce ==
    \A a \in Icaos :
        /\ Len(icao_positions[a]) <= cpr_use[a].attempts
        /\ 2 * cpr_use[a].attempts <= cpr_use[a].frames

\* C34: within one file, for every aircraft, each GNSS-derived sample
\* (t, g) has a difference sample (t, d) appended by the same message and a
\* barometric sample (tb, a) in the barometric series with g = a + d; the
\* GNSS series is never longer than the difference series and is empty
\* whenever the barometric series is empty.
C34_GnssBackedByDifference ==
    [][(last'.kind \in LineStepKinds
          => \A a \in Icaos :
               icao_gnss_altitude'[a] # icao_gnss_altitude[a]
               => LET g == icao_gnss_altitude'[a][Len(icao_gnss_altitude'[a])]
                      d == last'.line.msg.diff
                  IN  /\ a = last'.line.aa /\ g[1] = last'.line.t
                      /\ IsSome(d)
                      /\ icao_gnss_altitude'[a] = Append(icao_gnss_altitude[a], g)
                      /\ icao_altitude_difference'[a] =
                             Append(icao_altitude_difference[a], <<g[1], Val(d)>>)
                      /\ \E k \in 1..Len(icao_altitude'[a]) :
                             g[2] = icao_altitude'[a][k][2] + Val(d))
       /\ \A a \in Icaos :
             /\ Len(icao_gnss_altitude'[a]) <= Len(icao_altitude_difference'[a])
             /\ icao_altitude'[a] = <<>> => icao_gnss_altitude'[a] = <<>>]_vars

\* barometric sample (100, 35000), then a difference of +50 at t = 104:
\* the GNSS sample (104, 35050) stands beside the difference sample (104, 50)
C34_Witness ==
    \E a \in Icaos :
        /\ last.kind = "ingest" /\ last.line.aa = a /\ last.line.t = 104
        /\ icao_altitude[a] = <<(<<100, 35000>>)>>
        /\ icao_altitude_difference[a] = <<(<<104, 50>>)>>
        /\ icao_gnss_altitude[a] = <<(<<104, 35050>>)>>

\* C35: mode flags are united into the mode set of an aircraft only when
\* the same message yields a selected altitude inside [-2000, 50000], which
\* is appended to the selected-altitude series in the same step; a message
\* whose selected altitude is absent or out of range leaves every mode set
\* unchanged, so a mode set is non-empty only if the selected-altitude
\* series of the aircraft is non-empty.
C35_ModesNeedSelectedAltitude ==
    [][last'.kind = "ingest"
       => LET aa == last'.line.aa
              sel == last'.line.msg.sel
              yields == /\ last'.line.msg.df \in {17, 18}
                        /\ last'.line.msg.tc = Some(29)
                        /\ IsSome(sel)
                        /\ -2000 <= Val(sel)[1] /\ Val(sel)[1] <= 50000
          IN  /\ icao_callsigns'.modes # icao_callsigns.modes
                 => /\ yields
                    /\ icao_selected_altitude'[aa] =
                           Append(icao_selected_altitude[aa],
                                  <<last'.line.t, Val(sel)[1]>>)
              /\ ~yields => icao_callsigns'.modes = icao_callsigns.modes
              /\ \A a \in Icaos :
                     icao_callsigns'.modes[a] # {}
                     => icao_selected_altitude'[a] # <<>>]_vars

\* after AP and VNAV were stored, a message with selected altitude 50001
\* and flag T leaves the mode set and the series as they were
C35_Witness ==
    /\ last.kind = "ingest"
    /\ last.line.msg.sel = Some(<<50001, {"T"}>>)
    /\ last.before.modes = {"AP", "VNAV"}
    /\ icao_callsigns.modes[last.line.aa] = {"AP", "VNAV"}
    /\ Len(icao_selected_altitude[last.line.aa]) = 1

\* C36: the differences are taken of the sorted list, so for a list of at
\* least 2 timestamps in any arrival order every consecutive difference is
\* >= 0, the discard step removes nothing, a zero difference of two equal
\* timestamps is kept as an interval, and the outcome is never "no valid
\* intervals".
C36_SortedBeforeDifferencing ==
    (/\ hist.outcome # "none"
     /\ IF data_source = None THEN FALSE ELSE Len(Val(data_source)) >= 2)
        => LET data == Val(data_source)
               n == Len(data)
               forward == \A i \in 1..(n - 1) : ~WLess(data[i + 1], data[i])
               asc == IF forward THEN data ELSE [i \in 1..n |-> data[n + 1 - i]]
           IN  /\ hist.outcome = "plotted"
               /\ Len(hist.intervals) = n - 1
               /\ \A i \in 1..(n - 1) :
                      /\ ~FSub(asc[i + 1], asc[i]).neg
                      /\ hist.intervals[i] = FMul1000(FSub(asc[i + 1], asc[i])).mag
                      /\ asc[i + 1] = asc[i] => hist.intervals[i] = WZero

\* timestamps arriving as 1.6, 1.0, 0.5, 0.5: the intervals are 0, 500 and
\* a third one, in the order of the sorted list
C36_Witness ==
    /\ data_source = Some(<<Stamp16, Stamp10, Stamp05, Stamp05>>)
    /\ hist.outcome = "plotted"
    /\ Len(hist.intervals) = 3
    /\ hist.intervals[1] = WZero /\ hist.intervals[2] = WInt(500)

\* C37: for a list of n >= 2 timestamps the in-range, too-frequent and
\* too-infrequent counts sum to n - 1, and when the too-frequent tail is
\* non-empty the counts of its 5 secondary bins sum to the too-frequent
\* count.
C37_CountsConserved ==
    (/\ hist.outcome # "none"
     /\ IF data_source = None THEN FALSE ELSE Len(Val(data_source)) >= 2)
        => /\ Len(hist.middle) + Len(hist.left) + Len(hist.right)
                  = Len(Val(data_source)) - 1
           /\ hist.left # <<>>
                  => /\ Len(hist.counts) = 5
                     /\ hist.counts[1] + hist.counts[2] + hist.counts[3]
                            + hist.counts[4] + hist.counts[5] = Len(hist.left)

\* timestamps 0.0, 0.5, 0.6, 1.6 against 1000 +- 200 ms: 1000 is in range,
\* 500 and 99.99999999999997 are too frequent and fall into the last and
\* the first secondary bin
C37_Witness ==
    /\ data_source = Some(<<Stamp00, Stamp05, Stamp06, Stamp16>>)
    /\ hist.outcome = "plotted" /\ hist.center = 1000
    /\ Len(hist.middle) = 1 /\ Len(hist.left) = 2 /\ Len(hist.right) = 0
    /\ hist.counts = <<1, 0, 0, 0, 1>>

\* The total length of the eight per-category timestamp lists of an
\* aircraft.
CategoryTotalOf(df11, lists, a) ==
    Len(df11[a]) + Len(lists[1][a]) + Len(lists[2][a]) + Len(lists[3][a])
        + Len(lists[4][a]) + Len(lists[5][a]) + Len(lists[6][a])
        + Len(lists[7][a])
CategoryTotal(a) == CategoryTotalOf(icao_df11_ts, ts_lists, a)

\* C38: every identified message appends its timestamp to at most one of
\* the eight per-category lists, and to none for a format other than 11,
\* 17 and 18, so the total length of the eight lists of an aircraft never
\* exceeds its number of identified messages; a message of type code
\* 20..22 is counted in the airborne-position list and does not reach the
\* position resolver.
C38_CategoriesDisjoint ==
    [][last'.kind = "ingest"
       => LET aa == last'.line.aa
              m == last'.line.msg
              tc == IF m.df \in {17, 18} /\ IsSome(m.tc) THEN Val(m.tc) ELSE 0
              listed == m.df = 11 \/ tc \in (1..22) \cup {28, 29, 31}
          IN  /\ CategoryTotalOf(icao_df11_ts', ts_lists', aa)
                     = CategoryTotal(aa) + (IF listed THEN 1 ELSE 0)
              /\ m.df \notin {11, 17, 18}
                     => ts_lists' = ts_lists /\ icao_df11_ts' = icao_df11_ts
              /\ \A a \in Icaos :
                     CategoryTotalOf(icao_df11_ts', ts_lists', a) <= Len(seen_ts'[a])
              /\ tc \in 20..22
                     => /\ icao_airborne_pos_ts'[aa] =
                               Append(icao_airborne_pos_ts[aa], last'.line.t)
                        /\ cpr_messages' = cpr_messages
                        /\ icao_positions' = icao_positions
                        /\ last'.calls = 0]_vars

\* an even position frame is buffered, then a message of type code 20 of
\* the same aircraft: two airborne timestamps, the slot still holds the frame
C38_Witness ==
    /\ last.kind = "ingest"
    /\ last.line.msg = OtherAdsb(17, Some(20))
    /\ icao_airborne_pos_ts[last.line.aa] = <<100, 100>>
    /\ IsSome(cpr_messages[last.line.aa][1])
    /\ ~IsSome(cpr_messages[last.line.aa][2])
    /\ CategoryTotal(last.line.aa) = 2

\* C39: the 32-byte cap is applied to the framed byte container only; the
\* hexadecimal string handed to address, format and field extraction keeps
\* every digit of the payload tokens, so for a line of more than 64 digits
\* the decoder is given more digits than the 32 bytes of the container
\* hold.
C39_DecoderSeesWholePayload ==
    (framed.done /\ framed.result # None) =>
        LET r == Val(framed.result)
        IN  /\ Len(r.message) <= 32
            /\ framed.handed = Some(JoinUpper(HexParts(raw_parts)))
            /\ Len(Val(framed.handed)) > 64
                   => /\ Len(r.message) = 32
                      /\ Len(Val(framed.handed)) > 2 * Len(r.message)

\* a line of two payload tokens of 62 digits: 124 digits go to the
\* decoder, 32 bytes into the container
C39_Witness ==
    /\ framed.done
    /\ raw_parts = <<(<<"1", "0", "0">>), [i \in 1..62 |-> "A"],
                    [i \in 1..62 |-> "A"]>>
    /\ framed.handed = Some([i \in 1..124 |-> "A"])
    /\ Len(Val(framed.result).message) = 32

\* C40: under any sequence of next / previous aircraft, next / previous
\* view, key and scroll events on a non-empty aircraft list the aircraft
\* index stays in [0, number of aircraft - 1] and the view index in
\* [0, number of views - 1]; next followed by previous, and previous
\* followed by next, restores the index; next applied as many times as
\* there are entries returns to the start.
C40_NavigationIndicesValid ==
    [][/\ icao_index' \in 0..(Len(icao_list') - 1)
       /\ plot_mode_idx' \in 0..(Len(plot_modes') - 1)
       /\ shown' = [icao |-> icao_list'[icao_index' + 1],
                    mode |-> plot_modes'[plot_mode_idx' + 1]]
       /\ (\/ streak.handler = "next_icao" /\ streak'.handler = "prev_icao"
           \/ streak.handler = "prev_icao" /\ streak'.handler = "next_icao"
           \/ streak.handler = "next_mode" /\ streak'.handler = "prev_mode"
           \/ streak.handler = "prev_mode" /\ streak'.handler = "next_mode")
          => <<icao_index', plot_mode_idx'>> = streak.before
       /\ (streak'.handler = "next_icao" /\ streak'.count = Len(icao_list'))
          => icao_index' = streak'.start[1]
       /\ (streak'.handler = "next_mode" /\ streak'.count = Len(plot_modes'))
          => plot_mode_idx' = streak'.start[2]
       /\ streak'.handler \in {"on_key", "on_scroll"}
          => <<icao_index', plot_mode_idx'>> = <<icao_index, plot_mode_idx>>]_vars

\* three aircraft, the second one shown: three times "next" lead over the
\* end of the list back to the second one
C40_Witness ==
    /\ Len(icao_list) = 3
    /\ streak = [handler |-> "next_icao", count |-> 3, start |-> <<1, 0>>,
                 before |-> <<0, 0>>]
    /\ icao_index = 1 /\ plot_mode_idx = 0

====
